---- MODULE Spec2Model ----
(***************************************************************************)
(* Expression compiler and equation registry of hyperstellar:              *)
(*   parser.cpp        tokenizeExpression, parseDerivativeCall,            *)
(*                     infixToRPN, ParseEquation                           *)
(*   gpu_serializer.h  serializeTokensToGPU, serializeEquationForGPU       *)
(*   objects.cpp       Objects::Init, AddOrGetEquation, SetEquation        *)
(*   simulation_wrapper.cpp  SimulationWrapper::set_equation               *)
(*                                                                         *)
(* A std::string is a sequence of one-character strings; positions are     *)
(* 1-based here (the C++ index plus one).  A function that can throw       *)
(* returns a record with the field ok (FALSE: the exception, named in err).*)
(***************************************************************************)
EXTENDS Integers, Sequences, FiniteSets, TLC

(***************************************************************************)
(* Bounds of the model.                                                    *)
(***************************************************************************)
\* Objects::MAX_EQUATIONS is 256 in objects.h:104; the registry is checked
\* with a slot array of this many slots so that the capacity limit is reached.
MAX_EQUATIONS == 2
\* number of lexical pieces an input expression of the parser runs is made of
MaxPieces == 3

(***************************************************************************)
(* Characters                                                              *)
(***************************************************************************)
Digits == {"0", "1", "2", "3", "4", "5", "6", "7", "8", "9"}

Letters ==
    {"a", "b", "c", "d", "e", "f", "g", "h", "i", "j", "k", "l", "m",
     "n", "o", "p", "q", "r", "s", "t", "u", "v", "w", "x", "y", "z",
     "A", "B", "C", "D", "E", "F", "G", "H", "I", "J", "K", "L", "M",
     "N", "O", "P", "Q", "R", "S", "T", "U", "V", "W", "X", "Y", "Z"}

\* std::isspace in the "C" locale (the vertical tab has no escape here)
isspace(c) == c \in {" ", "\t", "\n", "\r", "\f"}

isalnum(c) == c \in Digits \cup Letters

DigitVal(c) ==
    CASE c = "0" -> 0 [] c = "1" -> 1 [] c = "2" -> 2 [] c = "3" -> 3
      [] c = "4" -> 4 [] c = "5" -> 5 [] c = "6" -> 6 [] c = "7" -> 7
      [] c = "8" -> 8 [] c = "9" -> 9

RECURSIVE Str(_)
\* the std::string with the characters s
Str(s) == IF s = <<>> THEN "" ELSE Head(s) \o Str(Tail(s))

substr(s, pos, n) == SubSeq(s, pos, pos + n - 1)

RECURSIVE SkipSpace(_, _)
\* while (pos < length && isspace(expression[pos])) pos++
SkipSpace(s, pos) ==
    IF pos <= Len(s) /\ isspace(s[pos]) THEN SkipSpace(s, pos + 1) ELSE pos

\* the characters trim removes: " \t\n\r"
TrimChars == {" ", "\t", "\n", "\r"}

RECURSIVE find_first_not_of(_, _)
\* str.find_first_not_of(" \t\n\r") from pos on; Len(s) + 1 for npos
find_first_not_of(s, pos) ==
    IF pos <= Len(s) /\ s[pos] \in TrimChars THEN find_first_not_of(s, pos + 1) ELSE pos

RECURSIVE find_last_not_of(_, _)
\* str.find_last_not_of(" \t\n\r") from pos down
find_last_not_of(s, pos) ==
    IF pos >= 1 /\ s[pos] \in TrimChars THEN find_last_not_of(s, pos - 1) ELSE pos

trim(s) ==
    IF find_first_not_of(s, 1) > Len(s) THEN <<>>
    ELSE SubSeq(s, find_first_not_of(s, 1), find_last_not_of(s, Len(s)))

RECURSIVE Pow10(_)
Pow10(n) == IF n <= 0 THEN 1 ELSE 10 * Pow10(n - 1)

(***************************************************************************)
(* Tokens (parser.h)                                                       *)
(***************************************************************************)
\* A float is kept as the decimal m * 10^e in lowest terms (kind "fin"), or as
\* one of the IEEE specials: equality of these records is equality of floats
\* for the short literals of the model.
RECURSIVE Float(_, _)
Float(m, e) ==
    IF m = 0 THEN [kind |-> "fin", m |-> 0, e |-> 0]
    ELSE IF m % 10 = 0 THEN Float(m \div 10, e + 1)
    ELSE [kind |-> "fin", m |-> m, e |-> e]

FloatInf == [kind |-> "inf", m |-> 0, e |-> 0]
FloatNaN == [kind |-> "nan", m |-> 0, e |-> 0]

\* the member initializers of struct Token
DefaultToken ==
    [type |-> "TOKEN_NUMBER", numeric_value |-> Float(0, 0),
     variable_name |-> "", object_type |-> "", object_index |-> -1,
     object_property |-> "", derivative_wrt |-> "", derivative_order |-> 1,
     derivative_method |-> "DERIV_METHOD_NUMERICAL",
     derivative_expr_tokens |-> <<>>]

Token(t) == [DefaultToken EXCEPT !.type = t]

TokenNumber(value) == [DefaultToken EXCEPT !.type = "TOKEN_NUMBER", !.numeric_value = value]

TokenVariable(var) == [DefaultToken EXCEPT !.type = "TOKEN_VARIABLE", !.variable_name = var]

(***************************************************************************)
(* ParserContext and the parser's tables (parser.cpp)                      *)
(***************************************************************************)
\* ParserContext::ParserContext: name -> differentiable
m_variables ==
    [x |-> TRUE, y |-> TRUE, t |-> TRUE, theta |-> TRUE,
     r |-> TRUE, g |-> TRUE, b |-> TRUE, a |-> TRUE, h |-> TRUE, s |-> TRUE,
     v |-> TRUE, vx |-> TRUE, vy |-> TRUE, ax |-> TRUE, ay |-> TRUE,
     omega |-> TRUE, alpha |-> TRUE,
     i |-> FALSE, pi |-> FALSE, e |-> FALSE, k |-> FALSE,
     damping |-> FALSE, gravity |-> FALSE, mass |-> FALSE, charge |-> FALSE,
     coupling |-> FALSE, freq |-> FALSE, amp |-> FALSE,
     radius |-> TRUE]

isValidVariable(name) == name \in DOMAIN m_variables

isValidDerivativeWRT(varName) == varName \in DOMAIN m_variables /\ m_variables[varName]

s_operatorInfo ==
    [TOKEN_ADD |-> [precedence |-> 2, rightAssociative |-> FALSE],
     TOKEN_SUB |-> [precedence |-> 2, rightAssociative |-> FALSE],
     TOKEN_MUL |-> [precedence |-> 3, rightAssociative |-> FALSE],
     TOKEN_DIV |-> [precedence |-> 3, rightAssociative |-> FALSE],
     TOKEN_NEG |-> [precedence |-> 4, rightAssociative |-> TRUE],
     TOKEN_POW |-> [precedence |-> 5, rightAssociative |-> TRUE]]

s_functionArity ==
    [TOKEN_NEG |-> 1, TOKEN_SIN |-> 1, TOKEN_COS |-> 1, TOKEN_TAN |-> 1,
     TOKEN_SQRT |-> 1, TOKEN_LOG |-> 1, TOKEN_EXP |-> 1, TOKEN_ABS |-> 1,
     TOKEN_FLOOR |-> 1, TOKEN_CEIL |-> 1, TOKEN_FRAC |-> 1, TOKEN_SIGN |-> 1,
     TOKEN_STEP |-> 1, TOKEN_REAL |-> 1, TOKEN_IMAG |-> 1, TOKEN_CONJ |-> 1,
     TOKEN_ARG |-> 1, TOKEN_MIN |-> 2, TOKEN_MAX |-> 2, TOKEN_MOD |-> 2,
     TOKEN_ATAN2 |-> 2, TOKEN_CLAMP |-> 3]

s_functionMap ==
    [sin |-> "TOKEN_SIN", cos |-> "TOKEN_COS", tan |-> "TOKEN_TAN",
     sqrt |-> "TOKEN_SQRT", log |-> "TOKEN_LOG", exp |-> "TOKEN_EXP",
     abs |-> "TOKEN_ABS", min |-> "TOKEN_MIN", max |-> "TOKEN_MAX",
     clamp |-> "TOKEN_CLAMP", floor |-> "TOKEN_FLOOR", ceil |-> "TOKEN_CEIL",
     frac |-> "TOKEN_FRAC", mod |-> "TOKEN_MOD", atan2 |-> "TOKEN_ATAN2",
     real |-> "TOKEN_REAL", imag |-> "TOKEN_IMAG", conj |-> "TOKEN_CONJ",
     arg |-> "TOKEN_ARG", sign |-> "TOKEN_SIGN", step |-> "TOKEN_STEP"]

(***************************************************************************)
(* std::stof and std::stoi on a lexeme                                     *)
(***************************************************************************)
RECURSIVE ScanDigits(_, _)
\* the first position >= pos of s that holds no decimal digit
ScanDigits(s, pos) ==
    IF pos <= Len(s) /\ s[pos] \in Digits THEN ScanDigits(s, pos + 1) ELSE pos

RECURSIVE DigitsValue(_)
DigitsValue(ds) ==
    IF ds = <<>> THEN 0
    ELSE 10 * DigitsValue(SubSeq(ds, 1, Len(ds) - 1)) + DigitVal(ds[Len(ds)])

HexDigits == Digits \cup {"a", "b", "c", "d", "e", "f", "A", "B", "C", "D", "E", "F"}

HexVal(c) ==
    IF c \in Digits THEN DigitVal(c)
    ELSE CASE c \in {"a", "A"} -> 10 [] c \in {"b", "B"} -> 11 [] c \in {"c", "C"} -> 12
           [] c \in {"d", "D"} -> 13 [] c \in {"e", "E"} -> 14 [] c \in {"f", "F"} -> 15

RECURSIVE HexPrefixValue(_, _, _)
\* value of the hexadecimal digits of s from pos on, acc being the value so far
HexPrefixValue(s, pos, acc) ==
    IF pos <= Len(s) /\ s[pos] \in HexDigits
    THEN HexPrefixValue(s, pos + 1, 16 * acc + HexVal(s[pos]))
    ELSE acc

\* s begins with word, compared without regard to case (word is in lower case)
HasPrefixNoCase(s, word, upper) ==
    /\ Len(s) >= Len(word)
    /\ \A j \in 1..Len(word) : s[j] = word[j] \/ s[j] = upper[j]

\* std::stof(lexeme): strtof converts the longest prefix that is a number and
\* ignores what follows it; no conversion is std::invalid_argument, a value
\* out of the float range (above about 1e38) is std::out_of_range.  A lexeme holds no white space
\* and no sign ('+' and '-' end a lexeme), so neither is looked for; a
\* hexadecimal literal is read up to its last hexadecimal digit.
stof(s) ==
    LET intEnd  == ScanDigits(s, 1)
        hasDot  == intEnd <= Len(s) /\ s[intEnd] = "."
        fracEnd == IF hasDot THEN ScanDigits(s, intEnd + 1) ELSE intEnd
        intDs   == SubSeq(s, 1, intEnd - 1)
        fracDs  == IF hasDot THEN SubSeq(s, intEnd + 1, fracEnd - 1) ELSE <<>>
        hasExp  == /\ fracEnd + 1 <= Len(s)
                   /\ s[fracEnd] \in {"e", "E"}
                   /\ s[fracEnd + 1] \in Digits
        expVal  == IF hasExp
                   THEN DigitsValue(SubSeq(s, fracEnd + 1, ScanDigits(s, fracEnd + 1) - 1))
                   ELSE 0
        mant    == DigitsValue(intDs \o fracDs)
        val     == Float(mant, expVal - Len(fracDs))
        isHex   == /\ Len(s) >= 3 /\ s[1] = "0" /\ s[2] \in {"x", "X"}
                   /\ s[3] \in HexDigits
    IN  IF isHex
        THEN [ok |-> TRUE, value |-> Float(HexPrefixValue(s, 3, 0), 0)]
        ELSE IF Len(intDs) + Len(fracDs) > 0
        THEN IF val.m # 0 /\ val.e > 38
             THEN [ok |-> FALSE, value |-> FloatNaN]
             ELSE [ok |-> TRUE, value |-> val]
        ELSE IF HasPrefixNoCase(s, <<"i", "n", "f">>, <<"I", "N", "F">>)
        THEN [ok |-> TRUE, value |-> FloatInf]
        ELSE IF HasPrefixNoCase(s, <<"n", "a", "n">>, <<"N", "A", "N">>)
        THEN [ok |-> TRUE, value |-> FloatNaN]
        ELSE [ok |-> FALSE, value |-> FloatNaN]

\* std::stoi(str): white space, an optional sign, then the longest run of
\* digits; std::invalid_argument when there is no digit.
stoi(s) ==
    LET p0    == SkipSpace(s, 1)
        neg   == p0 <= Len(s) /\ s[p0] = "-"
        p1    == IF p0 <= Len(s) /\ s[p0] \in {"+", "-"} THEN p0 + 1 ELSE p0
        p2    == ScanDigits(s, p1)
        mag   == DigitsValue(SubSeq(s, p1, p2 - 1))
    IN  IF p2 = p1 THEN [ok |-> FALSE, value |-> 0]
        ELSE [ok |-> TRUE, value |-> IF neg THEN 0 - mag ELSE mag]

(***************************************************************************)
(* Tokenizer (parser.cpp, tokenizeExpression)                              *)
(***************************************************************************)
Fail(msg) == [ok |-> FALSE, err |-> msg, tokens |-> <<>>]

\* the last branch of flushLexeme: num is the result of std::stof, whose
\* exceptions are caught and followed by "Unknown token"
NumberLexeme(tokens, num) ==
    IF num.ok
    THEN [ok |-> TRUE, err |-> "", tokens |-> Append(tokens, TokenNumber(num.value))]
    ELSE Fail("Unknown token")

\* the branches of flushLexeme for the non-empty lexeme with the text name
NamedLexeme(tokens, currentLexeme, name) ==
    IF name \in DOMAIN s_functionMap
    THEN [ok |-> TRUE, err |-> "", tokens |-> Append(tokens, Token(s_functionMap[name]))]
    ELSE IF isValidVariable(name)
    THEN [ok |-> TRUE, err |-> "", tokens |-> Append(tokens, TokenVariable(name))]
    ELSE NumberLexeme(tokens, stof(currentLexeme))

\* the lambda flushLexeme: classifies the pending lexeme and appends its token
flushLexeme(tokens, currentLexeme) ==
    IF currentLexeme = <<>> THEN [ok |-> TRUE, err |-> "", tokens |-> tokens]
    ELSE NamedLexeme(tokens, currentLexeme, Str(currentLexeme))

\* a faulty variant of isNegation: a minus that starts the expression is not
\* taken for a negation
isNegation_NotAtStart(tokens) ==
    /\ tokens # <<>>
    /\ tokens[Len(tokens)].type \in
          {"TOKEN_OPEN_PAREN", "TOKEN_COMMA", "TOKEN_ADD", "TOKEN_SUB",
           "TOKEN_MUL", "TOKEN_DIV", "TOKEN_POW"}

\* the test of case '-': unary negation or binary subtraction
isNegation(tokens) ==
    \/ tokens = <<>>
    \/ tokens[Len(tokens)].type \in
          {"TOKEN_OPEN_PAREN", "TOKEN_COMMA", "TOKEN_ADD", "TOKEN_SUB",
           "TOKEN_MUL", "TOKEN_DIV", "TOKEN_POW"}

OperatorChars == {"+", "-", "*", "/", "^", "(", ")", ","}

\* the switch over an operator or punctuation character
OperatorToken(c, tokens) ==
    CASE c = "+" -> Token("TOKEN_ADD")
      [] c = "-" -> Token(IF isNegation(tokens) THEN "TOKEN_NEG" ELSE "TOKEN_SUB")
      [] c = "*" -> Token("TOKEN_MUL")
      [] c = "/" -> Token("TOKEN_DIV")
      [] c = "^" -> Token("TOKEN_POW")
      [] c = "(" -> Token("TOKEN_OPEN_PAREN")
      [] c = ")" -> Token("TOKEN_CLOSE_PAREN")
      [] c = "," -> Token("TOKEN_COMMA")

RECURSIVE find(_, _, _)
\* std::string::find(ch, pos): the first position >= pos holding ch, 0 for npos
find(s, ch, pos) ==
    IF pos > Len(s) THEN 0
    ELSE IF s[pos] = ch THEN pos
    ELSE find(s, ch, pos + 1)

RECURSIVE ScanProperty(_, _)
\* while (propEnd < length && (isalnum(expression[propEnd]) || expression[propEnd] == '.'))
ScanProperty(s, pos) ==
    IF pos <= Len(s) /\ (isalnum(s[pos]) \/ s[pos] = ".")
    THEN ScanProperty(s, pos + 1)
    ELSE pos

\* expression[i + 1] when i + 1 < expression.length()
NextChar(expression, i) == IF i + 1 <= Len(expression) THEN expression[i + 1] ELSE ""

\* the character at i is added to the lexeme: it is no white space, starts no
\* object reference, no derivative call (a 'D' inside an identifier does
\* not), and is no operator or punctuation character
ExtendsLexeme(expression, i) ==
    /\ ~isspace(expression[i])
    /\ ~(expression[i] = "p" /\ NextChar(expression, i) = "[")
    /\ IF expression[i] = "D" /\ NextChar(expression, i) = "("
       THEN i > 1 /\ (isalnum(expression[i - 1]) \/ expression[i - 1] = "_")
       ELSE expression[i] \notin OperatorChars

(***************************************************************************)
(* Shunting yard (parser.cpp, infixToRPN)                                  *)
(***************************************************************************)
OperandTypes == {"TOKEN_NUMBER", "TOKEN_VARIABLE", "TOKEN_OBJECT_REF", "TOKEN_DERIVATIVE"}

\* a faulty variant of shouldPop: every operator is taken for left-associative
shouldPop_LeftAssociative(rightAssoc, stackPrec, currentPrec) ==
    stackPrec >= currentPrec

\* a faulty variant of shouldPop: an operator of equal precedence is never popped
shouldPop_NeverOnEqual(rightAssoc, stackPrec, currentPrec) == stackPrec > currentPrec

\* the pop test of the binary operator branch
shouldPop(rightAssoc, stackPrec, currentPrec) ==
    IF rightAssoc THEN stackPrec > currentPrec ELSE stackPrec >= currentPrec

RECURSIVE PopUntilOpenParen_Through(_, _)
\* a faulty variant of PopUntilOpenParen: the open paren is popped as well
PopUntilOpenParen_Through(output, stack) ==
    IF stack # <<>> /\ stack[Len(stack)].type # "TOKEN_OPEN_PAREN"
    THEN PopUntilOpenParen_Through(Append(output, stack[Len(stack)]),
                                   SubSeq(stack, 1, Len(stack) - 1))
    ELSE [output |-> output, stack |-> SubSeq(stack, 1, Len(stack) - 1)]

RECURSIVE PopUntilOpenParen(_, _)
\* while (!stack.empty() && stack.back().type != TOKEN_OPEN_PAREN) pop to output
PopUntilOpenParen(output, stack) ==
    IF stack # <<>> /\ stack[Len(stack)].type # "TOKEN_OPEN_PAREN"
    THEN PopUntilOpenParen(Append(output, stack[Len(stack)]), SubSeq(stack, 1, Len(stack) - 1))
    ELSE [output |-> output, stack |-> stack]

RECURSIVE PopOperators(_, _, _)
\* the while loop of the binary operator branch for the incoming token
PopOperators(output, stack, token) ==
    LET info == s_operatorInfo[token.type]
        top  == stack[Len(stack)]
    IN  IF /\ stack # <<>>
           /\ top.type \in DOMAIN s_operatorInfo
           /\ shouldPop(info.rightAssociative, s_operatorInfo[top.type].precedence,
                        info.precedence)
        THEN PopOperators(Append(output, top), SubSeq(stack, 1, Len(stack) - 1), token)
        ELSE [output |-> output, stack |-> stack]

RECURSIVE PopRemaining_DropsParen(_, _)
\* a faulty variant of PopRemaining: an open paren left on the stack is dropped
PopRemaining_DropsParen(output, stack) ==
    IF stack = <<>> THEN [ok |-> TRUE, err |-> "", tokens |-> output]
    ELSE IF stack[Len(stack)].type = "TOKEN_OPEN_PAREN"
    THEN PopRemaining_DropsParen(output, SubSeq(stack, 1, Len(stack) - 1))
    ELSE PopRemaining_DropsParen(Append(output, stack[Len(stack)]),
                                 SubSeq(stack, 1, Len(stack) - 1))

RECURSIVE PopRemaining_KeepsParen(_, _)
\* a faulty variant of PopRemaining: an open paren left on the stack goes to
\* the output like an operator
PopRemaining_KeepsParen(output, stack) ==
    IF stack = <<>> THEN [ok |-> TRUE, err |-> "", tokens |-> output]
    ELSE PopRemaining_KeepsParen(Append(output, stack[Len(stack)]),
                                 SubSeq(stack, 1, Len(stack) - 1))

RECURSIVE PopRemaining(_, _)
\* the final loop: pop the remaining operators, an open paren is an error
PopRemaining(output, stack) ==
    IF stack = <<>> THEN [ok |-> TRUE, err |-> "", tokens |-> output]
    ELSE IF stack[Len(stack)].type = "TOKEN_OPEN_PAREN" THEN Fail("Mismatched parentheses")
    ELSE PopRemaining(Append(output, stack[Len(stack)]), SubSeq(stack, 1, Len(stack) - 1))

RECURSIVE RPNLoop(_, _, _, _)
\* the for loop over infixTokens, from token number n on
RPNLoop(infixTokens, n, output, stack) ==
    IF n > Len(infixTokens) THEN PopRemaining(output, stack)
    ELSE
      LET token == infixTokens[n]
      IN  IF token.type \in OperandTypes
          THEN RPNLoop(infixTokens, n + 1, Append(output, token), stack)
          ELSE IF token.type \in DOMAIN s_functionArity
          THEN RPNLoop(infixTokens, n + 1, output, Append(stack, token))
          ELSE IF token.type = "TOKEN_COMMA"
          THEN LET p == PopUntilOpenParen(output, stack)
               IN  IF p.stack = <<>>
                   THEN Fail("Misplaced comma or mismatched parentheses")
                   ELSE RPNLoop(infixTokens, n + 1, p.output, p.stack)
          ELSE IF token.type = "TOKEN_OPEN_PAREN"
          THEN RPNLoop(infixTokens, n + 1, output, Append(stack, token))
          ELSE IF token.type = "TOKEN_CLOSE_PAREN"
          THEN LET p  == PopUntilOpenParen(output, stack)
                   s1 == SubSeq(p.stack, 1, Len(p.stack) - 1)
               IN  IF p.stack = <<>> THEN Fail("Mismatched parentheses")
                   ELSE IF s1 # <<>> /\ s1[Len(s1)].type \in DOMAIN s_functionArity
                   THEN RPNLoop(infixTokens, n + 1, Append(p.output, s1[Len(s1)]),
                                SubSeq(s1, 1, Len(s1) - 1))
                   ELSE RPNLoop(infixTokens, n + 1, p.output, s1)
          ELSE IF token.type \notin DOMAIN s_operatorInfo
          THEN RPNLoop(infixTokens, n + 1, Append(output, token), stack)
          ELSE LET p == PopOperators(output, stack, token)
               IN  RPNLoop(infixTokens, n + 1, p.output, Append(p.stack, token))

infixToRPN(infixTokens) == RPNLoop(infixTokens, 1, <<>>, <<>>)

(***************************************************************************)
(* Derivative calls and the tokenizer loop (parser.cpp)                    *)
(***************************************************************************)
RECURSIVE ScanDerivativeExpr(_, _, _, _)
\* the first while loop of parseDerivativeCall: collects expr_str up to the
\* first comma at depth 1 or the end of the call
ScanDerivativeExpr(expression, pos, paren_depth, expr_str) ==
    IF ~(pos <= Len(expression) /\ paren_depth > 0)
    THEN [pos |-> pos, paren_depth |-> paren_depth, expr_str |-> expr_str]
    ELSE
      LET c == expression[pos]
      IN  IF c = "("
          THEN ScanDerivativeExpr(expression, pos + 1, paren_depth + 1, Append(expr_str, c))
          ELSE IF c = ")"
          THEN ScanDerivativeExpr(expression, pos + 1, paren_depth - 1,
                                  IF paren_depth - 1 > 0 THEN Append(expr_str, c) ELSE expr_str)
          ELSE IF paren_depth = 1 /\ c = ","
          THEN [pos |-> pos, paren_depth |-> paren_depth, expr_str |-> expr_str]
          ELSE ScanDerivativeExpr(expression, pos + 1, paren_depth, Append(expr_str, c))

RECURSIVE ScanUntil(_, _, _)
\* while (pos < length && expression[pos] is none of stops) pos++
ScanUntil(s, pos, stops) ==
    IF pos <= Len(s) /\ s[pos] \notin stops THEN ScanUntil(s, pos + 1, stops) ELSE pos

\* the value of the third argument of D(...), or the exception
DerivativeOrder(n) ==
    IF n.ok /\ n.value >= 1 /\ n.value <= 4
    THEN [ok |-> TRUE, order |-> n.value]
    ELSE [ok |-> FALSE, order |-> 1]

DerivativeFail(msg) == [ok |-> FALSE, err |-> msg, tokens |-> <<>>, end_pos |-> 0]

\* the end of parseDerivativeCall: rpn_expr is infixToRPN of the tokens of
\* expr_str, or the exception one of the two calls threw
DerivativeToken(wrt_var, order, end_pos, rpn_expr) ==
    IF ~rpn_expr.ok THEN DerivativeFail(rpn_expr.err)
    ELSE [ok |-> TRUE, err |-> "", end_pos |-> end_pos,
          tokens |-> <<[Token("TOKEN_DERIVATIVE") EXCEPT
                           !.derivative_wrt = wrt_var,
                           !.derivative_order = order,
                           !.derivative_method = "DERIV_METHOD_NUMERICAL",
                           !.derivative_expr_tokens = rpn_expr.tokens]>>]

\* infixToRPN of the result t of tokenizeExpression
RPNOf(t) == IF t.ok THEN infixToRPN(t.tokens) ELSE t

RECURSIVE TokenizeLoop(_, _, _, _)

tokenizeExpression(expression) == TokenizeLoop(expression, 1, <<>>, <<>>)

\* parseDerivativeCall from "Parse optional order" on: var_end is where the
\* variable name ended, order_end where the order (when there is one) ended
DerivativeOrderPart(expression, expr_str, wrt_var, var_end, order_start, order_end) ==
    LET hasOrder == var_end <= Len(expression) /\ expression[var_end] = ","
        order == IF hasOrder
                 THEN DerivativeOrder(stoi(trim(SubSeq(expression, order_start, order_end - 1))))
                 ELSE [ok |-> TRUE, order |-> 1]
        pos   == IF hasOrder THEN order_end ELSE var_end
    IN  IF ~order.ok THEN DerivativeFail("Invalid derivative order")
        ELSE IF pos > Len(expression) \/ expression[pos] # ")"
        THEN DerivativeFail("Unclosed derivative call")
        ELSE DerivativeToken(wrt_var, order.order, pos, RPNOf(tokenizeExpression(expr_str)))

\* parseDerivativeCall from "Parse the with-respect-to variable" on
DerivativeVariablePart(expression, expr_str, var_start, var_end) ==
    IF ~isValidDerivativeWRT(Str(trim(SubSeq(expression, var_start, var_end - 1))))
    THEN DerivativeFail("Cannot take derivative with respect to")
    ELSE DerivativeOrderPart(expression, expr_str,
                             Str(trim(SubSeq(expression, var_start, var_end - 1))), var_end,
                             SkipSpace(expression, var_end + 1),
                             ScanUntil(expression, SkipSpace(expression, var_end + 1), {")"}))

\* parseDerivativeCall after the scan of the expression to differentiate
DerivativeArguments(expression, scan) ==
    IF scan.pos > Len(expression) \/ scan.paren_depth # 1
    THEN DerivativeFail("Unclosed derivative call")
    ELSE DerivativeVariablePart(expression, scan.expr_str,
                                SkipSpace(expression, scan.pos + 1),
                                ScanUntil(expression, SkipSpace(expression, scan.pos + 1),
                                          {",", ")"}))

\* returns ok, err, tokens (the one Derivative token) and end_pos
parseDerivativeCall(expression, start_pos) ==
    IF start_pos + 1 > Len(expression) \/ substr(expression, start_pos, 2) # <<"D", "(">>
    THEN DerivativeFail("Invalid derivative syntax: expected 'D('")
    ELSE DerivativeArguments(expression, ScanDerivativeExpr(expression, start_pos + 2, 1, <<>>))

\* a faulty variant of DerivativeGroup: the unary minus taken back is dropped
DerivativeGroup_NoWrap(derivative_tokens, shouldNegate) == derivative_tokens

\* the tokens a D(...) call adds: ( 0 - D ) when a unary minus came before it
DerivativeGroup(derivative_tokens, shouldNegate) ==
    IF shouldNegate
    THEN <<Token("TOKEN_OPEN_PAREN"), TokenNumber(Float(0, 0)), Token("TOKEN_SUB")>>
         \o derivative_tokens \o <<Token("TOKEN_CLOSE_PAREN")>>
    ELSE derivative_tokens

\* the derivative branch of the loop after flushLexeme: a unary minus before
\* the call is taken back (shouldNegate), d is what parseDerivativeCall gave
DerivativeCall(expression, tokens, shouldNegate, d) ==
    IF ~d.ok THEN Fail("Derivative parsing failed")
    ELSE TokenizeLoop(expression, d.end_pos + 1,
                      (IF shouldNegate THEN SubSeq(tokens, 1, Len(tokens) - 1) ELSE tokens)
                          \o DerivativeGroup(d.tokens, shouldNegate),
                      <<>>)

\* the object reference branch p[index].property after flushLexeme
ObjectReference(expression, i, tokens, bracketEnd, index) ==
    IF bracketEnd = 0 THEN Fail("Unclosed bracket in object reference")
    ELSE IF ~index.ok THEN Fail("stoi")
    ELSE IF bracketEnd + 1 > Len(expression) \/ expression[bracketEnd + 1] # "."
    THEN Fail("Missing property in object reference")
    ELSE TokenizeLoop(expression, ScanProperty(expression, bracketEnd + 2),
                      Append(tokens,
                             [Token("TOKEN_OBJECT_REF") EXCEPT
                                 !.object_type = "p",
                                 !.object_index = index.value,
                                 !.object_property =
                                     Str(SubSeq(expression, bracketEnd + 2,
                                                ScanProperty(expression, bracketEnd + 2) - 1))]),
                      <<>>)

\* one turn of the for loop at a character that ends the lexeme; flushed is
\* what flushLexeme gave
TokenizeStep(expression, i, flushed) ==
    IF ~flushed.ok THEN flushed
    ELSE IF isspace(expression[i])
    THEN TokenizeLoop(expression, i + 1, flushed.tokens, <<>>)
    ELSE IF expression[i] = "p" /\ NextChar(expression, i) = "["
    THEN ObjectReference(expression, i, flushed.tokens, find(expression, "]", i + 2),
                         stoi(SubSeq(expression, i + 2, find(expression, "]", i + 2) - 1)))
    ELSE IF expression[i] = "D" /\ NextChar(expression, i) = "("
    THEN DerivativeCall(expression, flushed.tokens,
                        flushed.tokens # <<>>
                            /\ flushed.tokens[Len(flushed.tokens)].type = "TOKEN_NEG",
                        parseDerivativeCall(expression, i))
    ELSE TokenizeLoop(expression, i + 1,
                      Append(flushed.tokens, OperatorToken(expression[i], flushed.tokens)),
                      <<>>)

\* the for loop of tokenizeExpression from position i on, and the final flush
TokenizeLoop(expression, i, tokens, currentLexeme) ==
    IF i > Len(expression) THEN flushLexeme(tokens, currentLexeme)
    ELSE IF ExtendsLexeme(expression, i)
    THEN TokenizeLoop(expression, i + 1, tokens, Append(currentLexeme, expression[i]))
    ELSE TokenizeStep(expression, i, flushLexeme(tokens, currentLexeme))

(***************************************************************************)
(* ParseEquation (parser.cpp)                                              *)
(***************************************************************************)
\* the 7 channels in the order of struct ParsedEquation and EquationMapping
Channels == <<"ax", "ay", "angular", "r", "g", "b", "a">>

RECURSIVE SplitTopLevel_EveryComma(_, _, _, _, _)
\* a faulty variant of SplitTopLevel: every comma ends an expression
SplitTopLevel_EveryComma(equation_string, n, depth, current, expressions) ==
    IF n > Len(equation_string)
    THEN IF current # <<>> THEN Append(expressions, trim(current)) ELSE expressions
    ELSE IF equation_string[n] = ","
    THEN SplitTopLevel_EveryComma(equation_string, n + 1, depth, <<>>,
                                  Append(expressions, trim(current)))
    ELSE SplitTopLevel_EveryComma(equation_string, n + 1, depth,
                                  Append(current, equation_string[n]), expressions)

RECURSIVE SplitTopLevel(_, _, _, _, _)
\* the splitting loop of ParseEquation: commas at depth 0 end an expression
SplitTopLevel(equation_string, n, depth, current, expressions) ==
    IF n > Len(equation_string)
    THEN IF current # <<>> THEN Append(expressions, trim(current)) ELSE expressions
    ELSE
      LET c == equation_string[n]
      IN  IF c = "("
          THEN SplitTopLevel(equation_string, n + 1, depth + 1, Append(current, c), expressions)
          ELSE IF c = ")"
          THEN SplitTopLevel(equation_string, n + 1, depth - 1, Append(current, c), expressions)
          ELSE IF c = "," /\ depth = 0
          THEN SplitTopLevel(equation_string, n + 1, depth, <<>>,
                             Append(expressions, trim(current)))
          ELSE SplitTopLevel(equation_string, n + 1, depth, Append(current, c), expressions)

\* one "Parse ... expression" block: tokenize and convert piece number n
ParseComponent(expressions, n) ==
    IF Len(expressions) > n - 1 /\ expressions[n] # <<>>
    THEN RPNOf(tokenizeExpression(expressions[n]))
    ELSE [ok |-> TRUE, err |-> "", tokens |-> <<>>]

RECURSIVE extractConstants(_)
\* the lambda extractConstants: the numeric values of the Number tokens
extractConstants(tokens) ==
    IF tokens = <<>> THEN <<>>
    ELSE (IF Head(tokens).type = "TOKEN_NUMBER" THEN <<Head(tokens).numeric_value>> ELSE <<>>)
         \o extractConstants(Tail(tokens))

RECURSIVE AllConstants(_, _)
\* the constants of the first n components, in channel order
AllConstants(comp, n) ==
    IF n = 0 THEN <<>> ELSE AllConstants(comp, n - 1) \o extractConstants(comp[n].tokens)

\* the ParsedEquation made of the 7 parsed components comp
MakeParsedEquation(comp) ==
    [tokens_ax |-> comp[1].tokens, tokens_ay |-> comp[2].tokens,
     tokens_angular |-> comp[3].tokens, tokens_r |-> comp[4].tokens,
     tokens_g |-> comp[5].tokens, tokens_b |-> comp[6].tokens,
     tokens_a |-> comp[7].tokens, constants |-> AllConstants(comp, 7)]

RECURSIVE FirstError(_, _)
\* the exception of the first component from number n on that threw
FirstError(comp, n) == IF ~comp[n].ok THEN comp[n].err ELSE FirstError(comp, n + 1)

\* the result of ParseEquation from the 7 parsed components: ok, err and eq
\* (the ParsedEquation); the first failing component in channel order is the
\* exception
ParsedEquationOf(comp) ==
    IF \E n \in 1..7 : ~comp[n].ok
    THEN [ok |-> FALSE, err |-> FirstError(comp, 1),
          eq |-> MakeParsedEquation([n \in 1..7 |-> [tokens |-> <<>>]])]
    ELSE [ok |-> TRUE, err |-> "", eq |-> MakeParsedEquation(comp)]

ParseComponents(expressions) == [n \in 1..7 |-> ParseComponent(expressions, n)]

ParseEquation(equation_string) ==
    ParsedEquationOf(ParseComponents(SplitTopLevel(equation_string, 1, 0, <<>>, <<>>)))

ChannelTokens(eq, c) ==
    CASE c = "ax" -> eq.tokens_ax [] c = "ay" -> eq.tokens_ay
      [] c = "angular" -> eq.tokens_angular [] c = "r" -> eq.tokens_r
      [] c = "g" -> eq.tokens_g [] c = "b" -> eq.tokens_b [] c = "a" -> eq.tokens_a

(***************************************************************************)
(* Bytecode serializer (gpu_serializer.h)                                  *)
(***************************************************************************)
\* namespace GPUTokens by way of s_tokenTypeMap: parser token type -> opcode
s_tokenTypeMap ==
    [TOKEN_ADD |-> 3, TOKEN_SUB |-> 4, TOKEN_MUL |-> 5, TOKEN_DIV |-> 6,
     TOKEN_NEG |-> 7, TOKEN_POW |-> 8, TOKEN_SIN |-> 9, TOKEN_COS |-> 10,
     TOKEN_TAN |-> 11, TOKEN_SQRT |-> 12, TOKEN_LOG |-> 13, TOKEN_EXP |-> 14,
     TOKEN_ABS |-> 15, TOKEN_MIN |-> 16, TOKEN_MAX |-> 17, TOKEN_CLAMP |-> 18,
     TOKEN_FLOOR |-> 19, TOKEN_CEIL |-> 20, TOKEN_FRAC |-> 21, TOKEN_MOD |-> 22,
     TOKEN_ATAN2 |-> 23, TOKEN_REAL |-> 24, TOKEN_IMAG |-> 25, TOKEN_CONJ |-> 26,
     TOKEN_ARG |-> 27, TOKEN_SIGN |-> 28, TOKEN_STEP |-> 29,
     TOKEN_OPEN_PAREN |-> 30, TOKEN_CLOSE_PAREN |-> 31, TOKEN_COMMA |-> 32]

\* the opcodes of the four operand kinds
GPUTokens ==
    [TOKEN_NUMBER |-> 0, TOKEN_VARIABLE |-> 1, TOKEN_OBJECT_REF |-> 2,
     TOKEN_DERIVATIVE |-> 33]

DerivativeMethods == [DERIV_METHOD_NUMERICAL |-> 0, DERIV_METHOD_SYMBOLIC |-> 1]

s_variableHashMap ==
    [x |-> 1, y |-> 2, vx |-> 3, vy |-> 4, ax |-> 5, ay |-> 6, t |-> 7,
     theta |-> 8, omega |-> 27, alpha |-> 28, r |-> 9, g |-> 10, b |-> 11,
     a |-> 12, h |-> 13, s |-> 14, v |-> 15, i |-> 16, pi |-> 17, e |-> 18,
     k |-> 19, damping |-> 20, gravity |-> 21, mass |-> 22, charge |-> 23,
     coupling |-> 24, freq |-> 25, amp |-> 26]

s_propertyHashMap ==
    ("x" :> 1) @@ ("y" :> 2) @@ ("vx" :> 3) @@ ("vy" :> 4) @@ ("ax" :> 5)
    @@ ("ay" :> 6) @@ ("mass" :> 7) @@ ("charge" :> 8)
    @@ ("data.x" :> 9) @@ ("data.y" :> 10) @@ ("data.z" :> 11) @@ ("data.w" :> 12)
    @@ ("color.r" :> 13) @@ ("color.g" :> 14) @@ ("color.b" :> 15) @@ ("color.a" :> 16)

\* hashVariableName and hashPropertyName throw on a name that is no key
hashVariableName(name) ==
    IF name \in DOMAIN s_variableHashMap
    THEN [ok |-> TRUE, code |-> s_variableHashMap[name]]
    ELSE [ok |-> FALSE, code |-> 0]

hashPropertyName(name) ==
    IF name \in DOMAIN s_propertyHashMap
    THEN [ok |-> TRUE, code |-> s_propertyHashMap[name]]
    ELSE [ok |-> FALSE, code |-> 0]

\* the state serializeTokensToGPU works on: the two out-buffers and the
\* value -> index map (std::unordered_map<float, int>)
EmptySerialized == [ok |-> TRUE, err |-> "", tokenBuffer |-> <<>>,
                    constantBuffer |-> <<>>, constantMap |-> <<>>]

SerializeFail(st, msg) == [st EXCEPT !.ok = FALSE, !.err = msg]

\* constantMap.find(value): a NaN key compares unequal to every key
constantMapHas(constantMap, value) ==
    value.kind # "nan" /\ value \in DOMAIN constantMap

\* a faulty variant of FindOrAddConstant: the map is not looked up
FindOrAddConstant_AlwaysAdd(st, value) ==
    [index |-> Len(st.constantBuffer),
     st |-> [st EXCEPT !.constantBuffer = Append(@, value),
                       !.constantMap = IF value.kind = "nan" THEN @
                                       ELSE (value :> Len(st.constantBuffer)) @@ @]]

\* "find or add" of a constant: the index, and the buffer and map after it
FindOrAddConstant(st, value) ==
    IF constantMapHas(st.constantMap, value)
    THEN [index |-> st.constantMap[value], st |-> st]
    ELSE [index |-> Len(st.constantBuffer),
          st |-> [st EXCEPT !.constantBuffer = Append(@, value),
                            !.constantMap = IF value.kind = "nan" THEN @
                                            ELSE (value :> Len(st.constantBuffer)) @@ @]]

RECURSIVE MergeConstants(_, _, _, _)
\* the merge loop of case TOKEN_DERIVATIVE from local constant number n on:
\* the outer state and indexRemap (local index -> outer index) after it
MergeConstants(st, exprConstantBuffer, n, indexRemap) ==
    IF n > Len(exprConstantBuffer) THEN [st |-> st, indexRemap |-> indexRemap]
    ELSE LET f == FindOrAddConstant(st, exprConstantBuffer[n])
         IN  MergeConstants(f.st, exprConstantBuffer, n + 1, ((n - 1) :> f.index) @@ indexRemap)

RECURSIVE RemapIndices(_, _, _)
\* the rewrite loop of case TOKEN_DERIVATIVE: at every position n that holds
\* the value of TOKEN_NUMBER and has a successor, the successor is looked up
\* in indexRemap; the buffer is rewritten in place, position after position
RemapIndices(exprTokenBuffer, n, indexRemap) ==
    IF n > Len(exprTokenBuffer) THEN exprTokenBuffer
    ELSE IF /\ exprTokenBuffer[n] = GPUTokens.TOKEN_NUMBER
            /\ n + 1 <= Len(exprTokenBuffer)
            /\ exprTokenBuffer[n + 1] \in DOMAIN indexRemap
    THEN RemapIndices([exprTokenBuffer EXCEPT ![n + 1] = indexRemap[exprTokenBuffer[n + 1]]],
                      n + 1, indexRemap)
    ELSE RemapIndices(exprTokenBuffer, n + 1, indexRemap)

\* the tokens a Number token adds: TOKEN_NUMBER and the index f found or added
EmitNumber(f) ==
    [f.st EXCEPT !.tokenBuffer = @ \o <<GPUTokens.TOKEN_NUMBER, f.index>>]

\* the tokens a Derivative token adds after its expression was serialized and
\* the constants of the expression merged: the header, then the expression
EmitDerivative(token, code, merged, exprTokenBuffer) ==
    [merged.st EXCEPT !.tokenBuffer =
        @ \o <<GPUTokens.TOKEN_DERIVATIVE, code, token.derivative_order,
               DerivativeMethods[token.derivative_method], Len(exprTokenBuffer)>>
          \o exprTokenBuffer]

\* case TOKEN_DERIVATIVE after the merge of the local constants of expr
MergedDerivative(token, code, expr, merged) ==
    EmitDerivative(token, code, merged, RemapIndices(expr.tokenBuffer, 1, merged.indexRemap))

\* case TOKEN_DERIVATIVE after the recursive call that gave expr (the buffers
\* of the expression to differentiate, or the exception)
SerializedDerivative(token, st, expr) ==
    IF ~expr.ok THEN SerializeFail(st, expr.err)
    ELSE MergedDerivative(token, hashVariableName(token.derivative_wrt).code, expr,
                          MergeConstants(st, expr.constantBuffer, 1, <<>>))

RECURSIVE serializeTokensToGPU(_, _)

\* one token of serializeTokensToGPU's loop: the state after it
SerializeToken(token, st) ==
    CASE token.type = "TOKEN_NUMBER" ->
           EmitNumber(FindOrAddConstant(st, token.numeric_value))
      [] token.type = "TOKEN_VARIABLE" ->
           IF ~hashVariableName(token.variable_name).ok
           THEN SerializeFail(st, "Unknown variable name")
           ELSE [st EXCEPT !.tokenBuffer =
                    @ \o <<GPUTokens.TOKEN_VARIABLE, hashVariableName(token.variable_name).code>>]
      [] token.type = "TOKEN_OBJECT_REF" ->
           IF ~hashPropertyName(token.object_property).ok
           THEN SerializeFail(st, "Unknown property name")
           ELSE [st EXCEPT !.tokenBuffer =
                    @ \o <<GPUTokens.TOKEN_OBJECT_REF, token.object_index,
                           hashPropertyName(token.object_property).code>>]
      [] token.type = "TOKEN_DERIVATIVE" ->
           IF ~hashVariableName(token.derivative_wrt).ok
           THEN SerializeFail(st, "Unknown variable name")
           ELSE SerializedDerivative(token, st,
                    serializeTokensToGPU(token.derivative_expr_tokens, EmptySerialized))
      [] OTHER ->
           IF token.type \in DOMAIN s_tokenTypeMap
           THEN [st EXCEPT !.tokenBuffer = Append(@, s_tokenTypeMap[token.type])]
           ELSE SerializeFail(st, "Unknown token type in serialization")

\* serializeTokensToGPU(tokens, outTokenBuffer, outConstantBuffer, constantMap)
\* with the three in-out parameters in st; on a throw, ok is FALSE
serializeTokensToGPU(tokens, st) ==
    IF tokens = <<>> \/ ~st.ok THEN st
    ELSE serializeTokensToGPU(Tail(tokens), SerializeToken(Head(tokens), st))

\* the lambda serializeComponent: an empty channel serializes to nothing
serializeComponent(tokens) ==
    IF tokens # <<>> THEN serializeTokensToGPU(tokens, EmptySerialized) ELSE EmptySerialized

\* the SerializedEquation made of the 7 serialized channels comp
SerializedEquationOf(comp) ==
    [ok |-> \A n \in 1..7 : comp[n].ok,
     tokenBuffer |-> [n \in 1..7 |-> comp[n].tokenBuffer],
     constantBuffer |-> [n \in 1..7 |-> comp[n].constantBuffer]]

\* the channels before, then tokens serialized on the constant buffer and
\* map the channel before it left
AppendShared(before, tokens) ==
    Append(before,
           serializeTokensToGPU(tokens,
               [(IF before = <<>> THEN EmptySerialized ELSE before[Len(before)])
                   EXCEPT !.tokenBuffer = <<>>]))

RECURSIVE SharedComponents(_, _)
SharedComponents(equation, n) ==
    IF n = 0 THEN <<>>
    ELSE AppendShared(SharedComponents(equation, n - 1), ChannelTokens(equation, Channels[n]))

\* a faulty variant of serializeEquationForGPU: one constant map and buffer
\* for all 7 channels
serializeEquationForGPU_SharedMap(equation) ==
    SerializedEquationOf(SharedComponents(equation, 7))

\* returns ok and, per channel, tokenBuffer and constantBuffer; the first
\* channel that throws ends the call
serializeEquationForGPU(equation) ==
    SerializedEquationOf([n \in 1..7 |-> serializeComponent(ChannelTokens(equation, Channels[n]))])

(***************************************************************************)
(* Equation registry (objects.cpp)                                         *)
(***************************************************************************)
VARIABLES
    g_allTokens,            \* std::vector<int>: the shared opcode buffer
    g_allConstants,         \* std::vector<float>: the shared constant buffer
    g_equationMappings,     \* slot 0..MAX_EQUATIONS-1 -> EquationMapping
    g_equationStringToID,   \* equation text -> equation ID
    objects,                \* object index 0..g_numObjects-1 -> [equationID]
    issued,                 \* history: text -> the ID returned when it was registered
    registered,             \* history: text -> the serialized equation registered under it
    capacityHit,            \* history: some call found no free slot
    last,                   \* history: the last call, its arguments and how it ended
    expression,             \* compiler run: the input string
    pc,                     \* compiler run: "start", "lexed", "done" or "error"
    tokens,                 \* compiler run: the result of tokenizeExpression
    rpn,                    \* compiler run: the result of infixToRPN
    equation_text,          \* equation run: the equation string
    parsed_eq,              \* equation run: the result of ParseEquation
    serialized_eq,          \* equation run: the result of serializeEquationForGPU
    g_allTokensSSBO,        \* the kernel-visible copy of g_allTokens
    g_allConstantsSSBO,     \* the kernel-visible copy of g_allConstants
    g_mappingsSSBO,         \* the kernel-visible copy of g_equationMappings
    calls,                  \* stepwise calls: caller -> the locals of its AddOrGetEquation
    overlapped,             \* history: two stepwise calls were under way at the same time
    started,                \* history: the number of stepwise calls begun
    g_allConstraints,       \* std::vector<Constraint>: the global constraint array
    g_objectConstraintMappings, \* object index 0..MAX_OBJECTS-1 -> ObjectConstraints
    moved,                  \* history: the index the last operation moved a targeted object to, or -1
    frame                   \* stepwise compilation: the locals of the loops under way

registryVars == <<g_allTokens, g_allConstants, g_equationMappings, g_equationStringToID,
                  objects, issued, registered, capacityHit, last>>
compilerVars == <<expression, pc, tokens, rpn>>
equationVars == <<equation_text, parsed_eq, serialized_eq>>
kernelVars == <<g_allTokensSSBO, g_allConstantsSSBO, g_mappingsSSBO>>
callVars == <<calls, overlapped, started>>
constraintVars == <<g_allConstraints, g_objectConstraintMappings, moved>>
stepVars == <<frame>>
vars == <<g_allTokens, g_allConstants, g_equationMappings, g_equationStringToID,
          objects, issued, registered, capacityHit, last, expression, pc, tokens, rpn,
          equation_text, parsed_eq, serialized_eq, g_allTokensSSBO, g_allConstantsSSBO,
          g_mappingsSSBO, calls, overlapped, started, g_allConstraints,
          g_objectConstraintMappings, moved, frame>>

\* EquationMapping{}: per channel tokenOffset, tokenCount, constantOffset
ZeroMapping == [n \in 1..7 |-> [tokenOffset |-> 0, tokenCount |-> 0, constantOffset |-> 0]]

RECURSIVE SumLen(_, _)
\* total length of the first n buffers of bufs
SumLen(bufs, n) == IF n = 0 THEN 0 ELSE SumLen(bufs, n - 1) + Len(bufs[n])

RECURSIVE Concat(_, _)
\* the first n buffers of bufs one after the other (the insert calls)
Concat(bufs, n) == IF n = 0 THEN <<>> ELSE Concat(bufs, n - 1) \o bufs[n]

\* the slots the free-slot scan takes for free: those whose ax, ay and
\* angular token counts are all 0
FreeSlots(mappings) ==
    {id \in 0..(MAX_EQUATIONS - 1) :
        /\ mappings[id][1].tokenCount = 0
        /\ mappings[id][2].tokenCount = 0
        /\ mappings[id][3].tokenCount = 0}

\* the free-slot scan: the first free slot, or -1
FindFreeSlot(mappings) ==
    IF FreeSlots(mappings) = {} THEN -1
    ELSE CHOOSE id \in FreeSlots(mappings) : \A j \in FreeSlots(mappings) : id <= j

\* a faulty variant of BuildMapping: every channel is given the offset of the first
BuildMapping_SameOffset(currentTokenOffset, currentConstantOffset, gpu_eq) ==
    [n \in 1..7 |->
        [tokenOffset    |-> currentTokenOffset,
         tokenCount     |-> Len(gpu_eq.tokenBuffer[n]),
         constantOffset |-> currentConstantOffset]]

\* "Calculate offsets for equation components"
BuildMapping(currentTokenOffset, currentConstantOffset, gpu_eq) ==
    [n \in 1..7 |->
        [tokenOffset    |-> currentTokenOffset + SumLen(gpu_eq.tokenBuffer, n - 1),
         tokenCount     |-> Len(gpu_eq.tokenBuffer[n]),
         constantOffset |-> currentConstantOffset + SumLen(gpu_eq.constantBuffer, n - 1)]]

\* "Store mapping" and "Append tokens and constants": the call that registers
\* the equation under newID and returns it
StoreEquation(reg, equationString, gpu_eq, newID) ==
    [outcome |-> "new", ret |-> newID,
     reg |-> [mappings     |-> [reg.mappings EXCEPT ![newID] =
                                   BuildMapping(Len(reg.allTokens), Len(reg.allConstants),
                                                gpu_eq)],
              table        |-> (equationString :> newID) @@ reg.table,
              allTokens    |-> reg.allTokens \o Concat(gpu_eq.tokenBuffer, 7),
              allConstants |-> reg.allConstants \o Concat(gpu_eq.constantBuffer, 7)]]

\* a faulty variant of RegisterEquation: the buffers are appended to before the
\* free-slot scan, so a call that finds no slot leaves them longer
RegisterEquation_AppendFirst(reg, equationString, gpu_eq) ==
    IF ~gpu_eq.ok
    THEN [outcome |-> "throw", ret |-> -1, reg |-> reg]
    ELSE IF FindFreeSlot(reg.mappings) = -1
    THEN [outcome |-> "full", ret |-> 0,
          reg |-> [reg EXCEPT !.allTokens = @ \o Concat(gpu_eq.tokenBuffer, 7),
                              !.allConstants = @ \o Concat(gpu_eq.constantBuffer, 7)]]
    ELSE StoreEquation(reg, equationString, gpu_eq, FindFreeSlot(reg.mappings))

\* AddOrGetEquation for a text that is not in the table, gpu_eq being what
\* serializeEquationForGPU gave (or its exception)
RegisterEquation(reg, equationString, gpu_eq) ==
    IF ~gpu_eq.ok
    THEN [outcome |-> "throw", ret |-> -1, reg |-> reg]
    ELSE IF FindFreeSlot(reg.mappings) = -1
    THEN [outcome |-> "full", ret |-> 0, reg |-> reg]
    ELSE StoreEquation(reg, equationString, gpu_eq, FindFreeSlot(reg.mappings))

\* a faulty variant of AddOrGetEquationOn: the table is not looked up
AddOrGetEquationOn_NoLookup(reg, equationString, eq) ==
    RegisterEquation(reg, equationString, serializeEquationForGPU(eq))

\* Objects::AddOrGetEquation on the registry reg: the registry after the call,
\* the value returned (ret) and how the call ended:
\*   "cached"  the text was registered, its ID is returned
\*   "throw"   serializeEquationForGPU threw
\*   "full"    no free slot, 0 is returned
\*   "new"     the equation was registered under a new ID
AddOrGetEquationOn(reg, equationString, eq) ==
    IF equationString \in DOMAIN reg.table
    THEN [outcome |-> "cached", ret |-> reg.table[equationString], reg |-> reg]
    ELSE RegisterEquation(reg, equationString, serializeEquationForGPU(eq))

\* the registry held by the variables
Registry ==
    [mappings |-> g_equationMappings, table |-> g_equationStringToID,
     allTokens |-> g_allTokens, allConstants |-> g_allConstants]

\* the buffers UploadPackedEquationsToGPU and the upload of the mappings leave
\* on the GPU for the registry reg
UploadedRegistry(reg) ==
    /\ g_allTokensSSBO' = reg.allTokens
    /\ g_allConstantsSSBO' = reg.allConstants
    /\ g_mappingsSSBO' = reg.mappings

SetRegistry(reg) ==
    /\ g_equationMappings' = reg.mappings
    /\ g_equationStringToID' = reg.table
    /\ g_allTokens' = reg.allTokens
    /\ g_allConstants' = reg.allConstants
    /\ UploadedRegistry(reg)

\* "vx, vy, -k*x/mass, -k*y/mass, 0, 1, 0, 0, 1" and "default_zero"
DefaultEquationString ==
    <<"v", "x", ",", " ", "v", "y", ",", " ", "-", "k", "*", "x", "/", "m", "a", "s", "s",
      ",", " ", "-", "k", "*", "y", "/", "m", "a", "s", "s", ",", " ", "0", ",", " ", "1",
      ",", " ", "0", ",", " ", "0", ",", " ", "1">>

DefaultZero == <<"d", "e", "f", "a", "u", "l", "t", "_", "z", "e", "r", "o">>

\* the registry after Objects::Init: all mappings zeroed, then the default
\* equation registered
InitialRegistry ==
    AddOrGetEquationOn([mappings |-> [id \in 0..(MAX_EQUATIONS - 1) |-> ZeroMapping],
                        table |-> <<>>, allTokens |-> <<>>, allConstants |-> <<>>],
                       DefaultZero, ParseEquation(DefaultEquationString).eq)

(***************************************************************************)
(* Inputs of the registry runs                                             *)
(***************************************************************************)
TextX       == <<"x">>
TextKY      == <<"k", ",", "y">>
\* only the red channel: the ax, ay and angular channels are empty
TextColour  == <<",", ",", ",", "2">>
\* a variable the ParserContext registers and s_variableHashMap has no key for
TextRadius  == <<"r", "a", "d", "i", "u", "s">>
\* a lexeme that is no function, variable or number
TextUnknown == <<"q">>
\* an open paren that is never closed
TextParen   == <<"(", "x">>

\* the equation strings set_equation is called with
EditTexts == {TextX, TextKY, TextColour, TextRadius, TextUnknown, TextParen}

\* the equation strings AddOrGetEquation and SetEquation are called with
RegTexts == {TextX, TextKY, TextColour, DefaultZero}

\* the ParsedEquations AddOrGetEquation and SetEquation are called with
Eqs == {ParseEquation(t).eq : t \in {TextX, TextKY, TextColour, TextRadius}}

\* the equation strings SetEquation is called with, each with its own
\* ParsedEquation as the callers of SetEquation pass it
SetTexts == {TextX, TextKY, TextColour}

\* the object indices the calls are made with: g_numObjects is 1 after
\* Objects::Init, so 0 is the one valid index and 1 the first invalid one
ObjectIndices == {0, 1}

g_numObjects == Len(objects)

(***************************************************************************)
(* Operations of the registry                                              *)
(***************************************************************************)
\* the history after a call of AddOrGetEquation that ended as r
Record(r, op, equationString, eq, objectIndex) ==
    /\ issued' = IF r.outcome = "new" THEN (equationString :> r.ret) @@ issued ELSE issued
    /\ registered' = IF r.outcome = "new"
                     THEN (equationString :> serializeEquationForGPU(eq)) @@ registered
                     ELSE registered
    /\ capacityHit' = (capacityHit \/ r.outcome = "full")
    /\ last' = [op |-> op, text |-> equationString, eq |-> eq, obj |-> objectIndex,
                outcome |-> r.outcome, ret |-> r.ret, afterNew |-> last.outcome = "new"]

\* the history after a call of set_equation that threw before AddOrGetEquation
Rejected(why, equation_string, eq, object_index) ==
    /\ last' = [op |-> "set_equation", text |-> equation_string, eq |-> eq,
                obj |-> object_index, outcome |-> why, ret |-> -1,
                afterNew |-> last.outcome = "new"]
    /\ UNCHANGED <<g_allTokens, g_allConstants, g_equationMappings,
                   g_equationStringToID, objects, issued, registered, capacityHit,
                   kernelVars>>

\* AddOrGetEquation with the result r of the call
AddOrGetEquationStep(r, equationString, eq) ==
    /\ SetRegistry(r.reg)
    /\ Record(r, "AddOrGetEquation", equationString, eq, -1)
    /\ UNCHANGED objects

\* int Objects::AddOrGetEquation(equationString, eq)
AddOrGetEquation(equationString, eq) ==
    /\ pc = "idle"
    /\ AddOrGetEquationStep(AddOrGetEquationOn(Registry, equationString, eq), equationString, eq)
    /\ UNCHANGED <<compilerVars, equationVars, callVars, constraintVars, stepVars>>

\* the write of eqID into the object (both halves of the double buffer)
StoreEquationID(objectIndex, eqID) ==
    IF objectIndex >= 0 /\ objectIndex < g_numObjects
    THEN [objects EXCEPT ![objectIndex + 1].equationID = eqID]
    ELSE objects

\* SetEquation with the result r of its call of AddOrGetEquation; an
\* exception of that call leaves through SetEquation
SetEquationStep(r, op, equationString, eq, objectIndex) ==
    /\ SetRegistry(r.reg)
    /\ Record(r, op, equationString, eq, objectIndex)
    /\ objects' = IF r.outcome = "throw" THEN objects
                  ELSE StoreEquationID(objectIndex, r.ret)

\* void Objects::SetEquation(equationString, eq, objectIndex)
SetEquation(equationString, eq, objectIndex) ==
    /\ pc = "idle"
    /\ SetEquationStep(AddOrGetEquationOn(Registry, equationString, eq),
                       "SetEquation", equationString, eq, objectIndex)
    /\ UNCHANGED <<compilerVars, equationVars, callVars, constraintVars, stepVars>>

\* set_equation after its index check, parsed being what ParseEquation gave
SetParsedEquation(object_index, equation_string, parsed) ==
    IF ~parsed.ok
    THEN Rejected("parse_error", equation_string, parsed.eq, object_index)
    ELSE SetEquationStep(AddOrGetEquationOn(Registry, equation_string, parsed.eq),
                         "set_equation", equation_string, parsed.eq, object_index)

\* void SimulationWrapper::set_equation(object_index, equation_string): every
\* failure leaves as std::runtime_error
set_equation(object_index, equation_string) ==
    /\ pc = "idle"
    /\ IF object_index < 0 \/ object_index >= g_numObjects
       THEN Rejected("invalid_index", equation_string,
                     MakeParsedEquation([n \in 1..7 |-> [tokens |-> <<>>]]), object_index)
       ELSE SetParsedEquation(object_index, equation_string, ParseEquation(equation_string))
    /\ UNCHANGED <<compilerVars, equationVars, callVars, constraintVars, stepVars>>

\* the state after Objects::Init, r being the registration of the default
\* equation: it has ID 0 and the one default object uses it
InitRegistryFrom(r) ==
    /\ g_allTokens = r.reg.allTokens
    /\ g_allConstants = r.reg.allConstants
    /\ g_equationMappings = r.reg.mappings
    /\ g_equationStringToID = r.reg.table
    /\ g_allTokensSSBO = r.reg.allTokens
    /\ g_allConstantsSSBO = r.reg.allConstants
    /\ g_mappingsSSBO = r.reg.mappings
    /\ issued = r.reg.table
    /\ registered = (DefaultZero :> serializeEquationForGPU(ParseEquation(DefaultEquationString).eq))
    /\ capacityHit = FALSE
    /\ objects = <<[equationID |-> r.ret]>>
    /\ last = [op |-> "Init", text |-> DefaultZero,
               eq |-> ParseEquation(DefaultEquationString).eq, obj |-> -1,
               outcome |-> r.outcome, ret |-> r.ret, afterNew |-> FALSE]

InitRegistry == InitRegistryFrom(InitialRegistry)

\* no equation run is under way
NoEquationRun ==
    /\ equation_text = <<>>
    /\ parsed_eq = ParseEquation(<<>>)
    /\ serialized_eq = serializeEquationForGPU(ParseEquation(<<>>).eq)

\* the locals of ParseEquation before its first statement: the position n,
\* depth, current and expressions of the splitting loop, the number comp of the
\* component being parsed and the parts parsed so far, and lexers, the
\* activations of tokenizeExpression on the call stack, the outermost first
InitialFrame ==
    [n |-> 1, depth |-> 0, current |-> <<>>, expressions |-> <<>>, comp |-> 1,
     parts |-> <<>>, lexers |-> <<>>]

\* no stepwise compilation is under way
NoSteps == frame = InitialFrame

\* the callers of the stepwise AddOrGetEquation
Callers == {1, 2}

\* the number of stepwise calls a run makes
MaxCalls == 2

\* the locals of a caller that is in no call and has made none
IdleCall ==
    [pc |-> "idle", equationString |-> <<>>, outcome |-> "none", ret |-> -1,
     gpu_eq |-> serializeEquationForGPU(ParseEquation(<<>>).eq), newID |-> -1,
     mapping |-> ZeroMapping, n |-> 0]

\* no stepwise call is under way
NoCalls ==
    /\ calls = [c \in Callers |-> IdleCall]
    /\ overlapped = FALSE
    /\ started = 0

\* Objects::MAX_OBJECTS
MAX_OBJECTS == 3

\* ObjectConstraints{}: objectID -1, no constraints
EmptyObjectConstraints == [objectID |-> -1, constraintOffset |-> 0, numConstraints |-> 0]

\* the constraint store after Objects::Init: no constraint
NoConstraints ==
    /\ g_allConstraints = <<>>
    /\ g_objectConstraintMappings = [i \in 0..(MAX_OBJECTS - 1) |-> EmptyObjectConstraints]
    /\ moved = -1

Init ==
    /\ InitRegistry
    /\ expression = <<>>
    /\ pc = "idle"
    /\ tokens = Fail("")
    /\ rpn = Fail("")
    /\ NoEquationRun
    /\ NoCalls
    /\ NoConstraints
    /\ NoSteps

Next ==
    \/ \E t \in RegTexts, eq \in Eqs : AddOrGetEquation(t, eq)
    \/ \E t \in SetTexts, o \in ObjectIndices : SetEquation(t, ParseEquation(t).eq, o)
    \/ \E o \in ObjectIndices, t \in EditTexts : set_equation(o, t)

Spec == Init /\ [][Next]_vars

(***************************************************************************)
(* Properties of the registry                                              *)
(***************************************************************************)
\* the step is a call that ran AddOrGetEquation (directly or through
\* SetEquation): last' describes it
RanAddOrGetEquation == last'.outcome \in {"cached", "throw", "full", "new"}

\* the IDs of the registered equations
RegisteredIDs(table) == {table[t] : t \in DOMAIN table}

\* buffer a is the beginning of buffer b
IsPrefix(a, b) == Len(a) <= Len(b) /\ SubSeq(b, 1, Len(a)) = a

\* the step is a call of AddOrGetEquation for a text that is not in the table
\* and that must fail: serialization of eq throws or no slot is free
FailsForNewText ==
    /\ RanAddOrGetEquation
    /\ last'.text \notin DOMAIN g_equationStringToID
    /\ \/ ~serializeEquationForGPU(last'.eq).ok
       \/ FreeSlots(g_equationMappings) = {}

\* C1: a call of AddOrGetEquation with a text that was registered before
\* returns the ID the registering call returned, whatever ParsedEquation is
\* passed, and leaves the two shared buffers, every mapping record and the
\* text -> ID table as they were.
C1_IdempotentRegistry ==
    [][(RanAddOrGetEquation /\ last'.text \in DOMAIN issued)
          => /\ last'.ret = issued[last'.text]
             /\ Registry' = Registry]_vars

\* a registered text was passed again, with another ParsedEquation than its own
C1_Witness ==
    /\ last.op = "AddOrGetEquation"
    /\ last.outcome = "cached"
    /\ last.text = TextX
    /\ last.eq # ParseEquation(TextX).eq
    /\ last.ret = issued[TextX]

\* the step registers a new equation B right after the call that registered
\* the new equation A
RegistersAfterRegistering == last.outcome = "new" /\ last'.outcome = "new"

C3_DistinctTextsDistinctIDs ==
    ~capacityHit
       => /\ \A t1, t2 \in DOMAIN g_equationStringToID :
                t1 # t2 => g_equationStringToID[t1] # g_equationStringToID[t2]
          /\ \A t \in DOMAIN issued :
                Cardinality({u \in DOMAIN g_equationStringToID :
                                g_equationStringToID[u] = issued[t]}) = 1

\* C4: no call changes the mapping record of an ID that was issued, nor the
\* tokens that record names; the shared buffers only grow at their end.
C4_IssuedMappingsStayValid ==
    [][/\ IsPrefix(g_allTokens, g_allTokens')
       /\ IsPrefix(g_allConstants, g_allConstants')
       /\ \A t \in DOMAIN issued :
             /\ g_equationMappings'[issued[t]] = g_equationMappings[issued[t]]
             /\ \A c \in 1..7 :
                   LET m == g_equationMappings[issued[t]][c]
                   IN  SubSeq(g_allTokens', m.tokenOffset + 1, m.tokenOffset + m.tokenCount)
                       = SubSeq(g_allTokens, m.tokenOffset + 1, m.tokenOffset + m.tokenCount)]_vars

\* C5: a call of AddOrGetEquation that fails for a new text (serialization
\* throws, or no slot is free) leaves the token buffer, the constant buffer,
\* all mapping records and the table as they were, and issues no ID for the
\* text.
C5_NoPartialSuccess ==
    [][FailsForNewText
          => /\ Registry' = Registry
             /\ last'.text \notin DOMAIN g_equationStringToID'
             /\ issued' = issued]_vars

\* a call for a new text found no free slot
C5_Witness ==
    /\ last.outcome = "full"
    /\ capacityHit
    /\ last.text \notin DOMAIN g_equationStringToID
    /\ serializeEquationForGPU(last.eq).ok
    /\ FreeSlots(g_equationMappings) = {}

\* C6: when no slot is free, AddOrGetEquation for a new text returns a value
\* that is the ID of no registered equation, and does not add the text to the
\* table.
C6_CapacitySentinel ==
    [][(/\ RanAddOrGetEquation
        /\ last'.text \notin DOMAIN g_equationStringToID
        /\ serializeEquationForGPU(last'.eq).ok
        /\ FreeSlots(g_equationMappings) = {})
          => /\ last'.ret \notin RegisteredIDs(g_equationStringToID')
             /\ last'.text \notin DOMAIN g_equationStringToID']_vars

\* the step applies an equation string to an object and must fail: the string
\* does not parse, or the equation does not serialize, or no slot is free
EditFails ==
    /\ last'.op \in {"SetEquation", "set_equation"}
    /\ \/ last'.op = "set_equation" /\ ~ParseEquation(last'.text).ok
       \/ FailsForNewText

\* C7: when applying an equation string to an object fails (lex, syntax,
\* semantic or capacity error), the equationID of every object is after the
\* call what it was before it.
C7_RejectedEditKeepsEquation ==
    [][EditFails => objects' = objects]_vars

(***************************************************************************)
(* Runs of the expression compiler: tokenizeExpression, then infixToRPN    *)
(***************************************************************************)
\* the pieces the input expressions are made of
Pieces ==
    {<<"x">>, <<"2">>, <<"+">>, <<"-">>, <<"*">>, <<"^">>, <<"(">>, <<")">>, <<",">>,
     <<" ">>, <<"s", "i", "n">>, <<"D", "(", "x", ",", "x", ")">>}

RECURSIVE Strings(_)
\* the strings made of at most n pieces
Strings(n) ==
    IF n = 0 THEN {<<>>}
    ELSE Strings(n - 1) \cup {s \o p : s \in Strings(n - 1), p \in Pieces}

\* operands: two numbers, two variables, an object reference, a derivative call
Operands ==
    {<<"2">>, <<"3">>, <<"x">>, <<"k">>, <<"p", "[", "1", "]", ".", "x">>,
     <<"D", "(", "x", "^", "2", ",", "x", ")">>}

\* the expression a^b^c
PowerInput(a, b, c) == a \o <<"^">> \o b \o <<"^">> \o c

\* the expression -k*x
NegationInput(k, x) == <<"-">> \o k \o <<"*">> \o x

\* expressions with parentheses and commas, matched and not
ParenInputs ==
    {<<"s", "i", "n", "(", "x">>, <<"(", "x">>, <<"x", ")">>, <<"x", ",", "2">>,
     <<"m", "a", "x", "(", "x", ",", "2", ")">>, <<"m", "a", "x", "(", "x", ",", "2">>,
     <<"(", "x", "+", "2", ")", "*", "x">>, <<"(", "(", "x", ")">>, <<"(", "x", ")", ")">>,
     <<")", "x", "(">>, <<"(", ",", ")">>, <<"(", "x", ",">>,
     <<"s", "i", "n", "(", "x", ")", "+", "(", "2">>,
     <<"m", "a", "x", "(", "x", ",", "(", "2", ")">>, <<"x", ")", ",", "(", "y">>,
     <<"D", "(", "x", ",", "x", ")", ")">>, <<"(", "D", "(", "x", ",", "x", ")">>,
     <<"D", "(", "(", "x", ",", "x", ")">>}

\* the parts of a derivative call D(x, wrt [, order]) [)]: the text of the
\* variable, nothing or a comma and the text of the order, and the closer
WrtTexts ==
    {<<"x">>, <<" ", "y", " ">>, <<"k">>, <<"q">>,
     <<" ", "t", "_", "u", "n", "r", "e", "g", "i", "s", "t", "e", "r", "e", "d">>, <<>>}

OrderTexts ==
    {<<"1">>, <<"4">>, <<"0">>, <<"5">>, <<"2", "x">>, <<"2", ".", "5">>, <<>>,
     <<" ", "3", " ">>, <<"-", "1">>, <<"x">>, <<"2", ",", "3">>}

OrderParts == {<<>>} \cup {<<",">> \o o : o \in OrderTexts}

Closers == {<<")">>, <<>>}

DerivativeCallInput(wrt, order, closer) ==
    <<"D", "(", "x", ",">> \o wrt \o order \o closer

\* expressions a '-' is appended to, beyond the strings of pieces
MinusInputs ==
    {<<"x", "/">>, <<"-", "-", "x">>, <<"a", " ", "-", " ", "-", " ", " ", "-", "b">>,
     <<"2", "*", "-", "x">>, <<"(", "-", "x">>,
     <<"m", "a", "x", "(", "x", ",", "-", "2", ")">>, <<"-", "s", "i", "n">>,
     <<"x", "-", "-">>, <<"p", "[", "1", "]", ".", "x">>, <<"D", "(", "x", ",", "x", ")">>,
     <<"x", "^", "-">>}

\* primary expressions: a number, a variable, an object reference, a function
\* call, parenthesised expressions
Primaries ==
    {<<"2">>, <<"x">>, <<"p", "[", "1", "]", ".", "x">>, <<"s", "i", "n", "(", "x", ")">>,
     <<"(", "x", ")">>, <<"(", "x", "+", "2", ")">>}

\* the expressions -A^B and -A*B
NegatedPower(A, B) == <<"-">> \o A \o <<"^">> \o B

NegatedProduct(A, B) == <<"-">> \o A \o <<"*">> \o B

\* what stands before a derivative call, the calls and what stands after them
DerivativePres ==
    {<<>>, <<"-">>, <<"-", " ">>, <<"x", "-">>, <<"x", "*", "-">>, <<"(", "-">>, <<"2", "+">>,
     <<"-", "-">>, <<"x", "+", " ">>, <<"x", " ">>}

DerivativeCalls ==
    {<<"D", "(", "x", ",", "x", ")">>,
     <<"D", "(", "-", "x", ",", " ", "y", ",", " ", "2", ")">>,
     <<"D", "(", "D", "(", "x", ",", "x", ")", ",", "x", ")">>,
     <<"D", "(", "-", "D", "(", "x", ",", "x", ")", ",", "x", ")">>}

DerivativePosts ==
    {<<>>, <<"+", "x">>, <<"-", "x">>, <<"^", "2">>, <<")">>}

\* the expression pre D(...) post
AroundDerivative(pre, call, post) == pre \o call \o post

\* single lexemes: numbers, names, and texts that only start like a number
LexemeInputs ==
    {<<"2", "x">>, <<"3", "a", "b", "c">>, <<"2", ".", "5">>, <<"1", "e", "5">>, <<"1", "e">>,
     <<"q">>, <<"s", "i", "n">>, <<"m", "a", "s", "s">>, <<"2", ".", ".", "5">>, <<".">>,
     <<"0", "x", "1", "F">>, <<"i", "n", "f">>, <<"n", "a", "n", "x">>, <<"x", "2">>,
     <<"5", ".">>, <<"s", "i", "n", "x">>, <<"1", "e", "5", "x">>, <<".", "5">>, <<"_">>,
     <<"2", "_">>}

\* the operands and operators of a op1 b op2 c
BinaryOperands ==
    {<<"2">>, <<"x">>, <<"k">>, <<"D", "(", "x", "^", "2", ",", "x", ")">>}

BinaryOperators == {"+", "-", "*", "/", "^"}

BinaryInput(a, op1, b, op2, c) == a \o <<op1>> \o b \o <<op2>> \o c

RECURSIVE Join(_, _)
\* the first n pieces of f with a comma between them
Join(f, n) ==
    IF n = 0 THEN <<>>
    ELSE IF n = 1 THEN f[1]
    ELSE Join(f, n - 1) \o <<",">> \o f[n]


\* the number of arguments of the function calls
MaxArguments == 3

\* function names, argument expressions, and the tuples of at most n arguments
FunctionNames ==
    {<<"s", "i", "n">>, <<"m", "a", "x">>, <<"c", "l", "a", "m", "p">>}

ArgumentTexts ==
    {<<"x">>, <<"-", "x">>, <<"x", "+", "2", "*", "k">>, <<"s", "i", "n", "(", "x", ")">>,
     <<"m", "a", "x", "(", "x", ",", "2", ")">>}

ArgumentTuples(n) == UNION {[1..m -> ArgumentTexts] : m \in 1..n}

\* what stands before and after a function call: nothing, or 2^ and +1
CallContexts == {<<<<>>, <<>>>>, <<<<"2", "^">>, <<"+", "1">>>>}

\* the expression pre f(a1, ..., an) post
FunctionCallInput(ctx, f, arguments) ==
    ctx[1] \o f \o <<"(">> \o Join(arguments, Len(arguments)) \o <<")">> \o ctx[2]

\* the input expressions of the compiler runs
Inputs ==
    Strings(MaxPieces)
        \cup {PowerInput(a, b, c) : a \in Operands, b \in Operands, c \in Operands}
        \cup {NegationInput(k, x) : k \in Operands, x \in Operands}
        \cup ParenInputs
        \cup {DerivativeCallInput(w, o, cl) :
                 w \in WrtTexts, o \in OrderParts, cl \in Closers}
        \cup MinusInputs
        \cup {NegatedPower(A, B) : A \in Primaries, B \in Primaries}
        \cup {NegatedProduct(A, B) : A \in Primaries, B \in Primaries}
        \cup {AroundDerivative(pre, call, post) :
                 pre \in DerivativePres, call \in DerivativeCalls, post \in DerivativePosts}
        \cup LexemeInputs
        \cup {BinaryInput(a, op1, b, op2, c) :
                 a \in BinaryOperands, b \in BinaryOperands, c \in BinaryOperands,
                 op1 \in BinaryOperators, op2 \in BinaryOperators}
        \cup {FunctionCallInput(ctx, f, arguments) :
                 ctx \in CallContexts, f \in FunctionNames,
                 arguments \in ArgumentTuples(MaxArguments)}

InitCompile ==
    /\ InitRegistry
    /\ expression \in Inputs
    /\ pc = "start"
    /\ tokens = Fail("")
    /\ rpn = Fail("")
    /\ NoEquationRun
    /\ NoCalls
    /\ NoConstraints
    /\ NoSteps

\* auto tokens = tokenizeExpression(expression, context)
CallTokenizeExpression ==
    /\ pc = "start"
    /\ tokens' = tokenizeExpression(expression)
    /\ pc' = IF tokens'.ok THEN "lexed" ELSE "error"
    /\ UNCHANGED <<expression, rpn, registryVars, equationVars, kernelVars, callVars,
                   constraintVars, stepVars>>

\* infixToRPN(tokens)
CallInfixToRPN ==
    /\ pc = "lexed"
    /\ rpn' = infixToRPN(tokens.tokens)
    /\ pc' = IF rpn'.ok THEN "done" ELSE "error"
    /\ UNCHANGED <<expression, tokens, registryVars, equationVars, kernelVars, callVars,
                   constraintVars, stepVars>>

NextCompile == CallTokenizeExpression \/ CallInfixToRPN

SpecCompile == InitCompile /\ [][NextCompile]_vars

(***************************************************************************)
(* Properties of the expression compiler                                   *)
(***************************************************************************)
\* the reference stack machine: how many values a postfix token pops
ReferencePops(type) ==
    CASE type \in {"TOKEN_NUMBER", "TOKEN_VARIABLE", "TOKEN_OBJECT_REF",
                   "TOKEN_DERIVATIVE"} -> 0
      [] type \in {"TOKEN_NEG", "TOKEN_SIN", "TOKEN_COS", "TOKEN_TAN", "TOKEN_SQRT",
                   "TOKEN_LOG", "TOKEN_EXP", "TOKEN_ABS", "TOKEN_FLOOR", "TOKEN_CEIL",
                   "TOKEN_FRAC", "TOKEN_SIGN", "TOKEN_STEP", "TOKEN_REAL", "TOKEN_IMAG",
                   "TOKEN_CONJ", "TOKEN_ARG"} -> 1
      [] type \in {"TOKEN_ADD", "TOKEN_SUB", "TOKEN_MUL", "TOKEN_DIV", "TOKEN_POW",
                   "TOKEN_MIN", "TOKEN_MAX", "TOKEN_MOD", "TOKEN_ATAN2"} -> 2
      [] type = "TOKEN_CLAMP" -> 3
      [] OTHER -> 0

RECURSIVE Underflows(_, _, _)
\* the reference stack machine pops from an empty stack somewhere from token
\* number n of postfix on, the stack holding depth values before it
Underflows(postfix, n, depth) ==
    IF n > Len(postfix) THEN FALSE
    ELSE IF depth < ReferencePops(postfix[n].type) THEN TRUE
    ELSE Underflows(postfix, n + 1, depth - ReferencePops(postfix[n].type) + 1)

RECURSIVE Power(_, _)
Power(base, n) == IF n <= 0 THEN 1 ELSE base * Power(base, n - 1)

RECURSIVE Evaluate(_, _, _)
\* the stack of the reference stack machine after the tokens of postfix from
\* number n on, for integer numbers and the operators + - * ^ and negation;
\* <<>> when the machine cannot go on
Evaluate(postfix, n, stack) ==
    IF n > Len(postfix) THEN stack
    ELSE
      LET type == postfix[n].type
          top  == stack[Len(stack)]
          snd  == stack[Len(stack) - 1]
          rest == SubSeq(stack, 1, Len(stack) - 2)
      IN  IF type = "TOKEN_NUMBER" /\ postfix[n].numeric_value.kind = "fin"
             /\ postfix[n].numeric_value.e >= 0
          THEN Evaluate(postfix, n + 1,
                        Append(stack, postfix[n].numeric_value.m
                                         * Power(10, postfix[n].numeric_value.e)))
          ELSE IF type = "TOKEN_NEG" /\ Len(stack) >= 1
          THEN Evaluate(postfix, n + 1, [stack EXCEPT ![Len(stack)] = 0 - top])
          ELSE IF type \in {"TOKEN_ADD", "TOKEN_SUB", "TOKEN_MUL", "TOKEN_POW"}
                  /\ Len(stack) >= 2
          THEN Evaluate(postfix, n + 1,
                        Append(rest, CASE type = "TOKEN_ADD" -> snd + top
                                       [] type = "TOKEN_SUB" -> snd - top
                                       [] type = "TOKEN_MUL" -> snd * top
                                       [] type = "TOKEN_POW" -> Power(snd, top)))
          ELSE <<>>

\* the token the operand text a lexes to
OperandToken(a) == tokenizeExpression(a).tokens[1]

\* C8: when tokenizeExpression succeeded and infixToRPN returned, the
\* reference stack machine never pops from an empty stack on the postfix
\* sequence.
C8_PostfixArityBalance ==
    pc = "done" => ~Underflows(rpn.tokens, 1, 0)

\* C9: for operands a, b and c, a^b^c compiles, and infixToRPN gives
\* [a, b, c, POW, POW]; 2^3^2 evaluates to 512 on the reference stack machine.
C9_RightAssociativePower ==
    \A a, b, c \in Operands :
        expression = PowerInput(a, b, c)
           => /\ pc # "error"
              /\ pc = "done"
                   => /\ rpn.tokens = <<OperandToken(a), OperandToken(b), OperandToken(c),
                                        Token("TOKEN_POW"), Token("TOKEN_POW")>>
                      /\ (a = <<"2">> /\ b = <<"3">> /\ c = <<"2">>)
                            => Evaluate(rpn.tokens, 1, <<>>) = <<512>>

\* 2^3^2 was compiled
C9_Witness ==
    /\ pc = "done"
    /\ expression = <<"2", "^", "3", "^", "2">>
    /\ Len(rpn.tokens) = 5
    /\ Evaluate(rpn.tokens, 1, <<>>) = <<512>>

\* C10 (as amended): for operands k and x, -k*x compiles; the postfix is
\* [k, NEG, x, MUL] when k is a number, a variable or an object reference,
\* and [0, k, SUB, x, MUL] when k is a derivative call.
C10_UnaryMinus ==
    \A k, x \in Operands :
        expression = NegationInput(k, x)
           => /\ pc # "error"
              /\ pc = "done"
                   => rpn.tokens =
                        IF OperandToken(k).type = "TOKEN_DERIVATIVE"
                        THEN <<TokenNumber(Float(0, 0)), OperandToken(k), Token("TOKEN_SUB"),
                               OperandToken(x), Token("TOKEN_MUL")>>
                        ELSE <<OperandToken(k), Token("TOKEN_NEG"),
                               OperandToken(x), Token("TOKEN_MUL")>>

\* C10 (as claimed): for any operands k and x, -k*x compiles and the postfix
\* is [k, NEG, x, MUL].
C10_UnaryMinusAnyOperand ==
    \A k, x \in Operands :
        expression = NegationInput(k, x)
           => /\ pc # "error"
              /\ pc = "done"
                   => rpn.tokens = <<OperandToken(k), Token("TOKEN_NEG"),
                                     OperandToken(x), Token("TOKEN_MUL")>>

\* -k*x was compiled
C10_Witness ==
    /\ pc = "done"
    /\ expression = <<"-", "k", "*", "x">>
    /\ rpn.tokens = <<TokenVariable("k"), Token("TOKEN_NEG"),
                      TokenVariable("x"), Token("TOKEN_MUL")>>

(***************************************************************************)
(* Runs of the equation pipeline: ParseEquation, serializeEquationForGPU,  *)
(* AddOrGetEquation                                                        *)
(***************************************************************************)
\* the most pieces an equation string of the runs is joined from
MaxChannels == 3

\* the pieces the equation strings are joined from: none has a comma outside
\* parentheses
ChannelPieces ==
    {<<>>, <<"v", "x">>, <<" ", "1", " ">>, <<"m", "a", "x", "(", "x", ",", "2", ")">>,
     <<"D", "(", "5", ",", "x", ")">>}

\* the tuples of at most n pieces
PieceTuples(n) == UNION {[1..m -> ChannelPieces] : m \in 1..n}

\* "vx, vy, 0, 1, 1, 1, 1"
SevenChannels ==
    <<"v", "x", ",", " ", "v", "y", ",", " ", "0", ",", " ", "1", ",", " ", "1", ",", " ", "1", ",", " ", "1">>

\* what comes before the derivative call, the expression to differentiate and
\* what comes after the call
DerivativePrefixes ==
    {<<>>, <<"5", "+">>, <<"7", "+">>, <<"2", "+", "5", "+">>}

DerivativeBodies ==
    {<<"x", "^", "2", "+", "5">>, <<"2", "+", "5", "*", "2">>, <<"2", "+", "5", "*", "x">>,
     <<"2", "+", "5", "*", "k">>, <<"p", "[", "0", "]", ".", "x", "*", "5", "*", "2">>,
     <<"D", "(", "x", ",", "x", ")", "+", "2", "+", "5", "+", "7">>, <<"5">>,
     <<"p", "[", "0", "]", ".", "x">>, <<"D", "(", "2", "*", "x", ",", "x", ")", "*", "5">>}

DerivativeSuffixes ==
    {<<>>, <<"+", "5">>, <<"+", "0">>}

\* the expression prefix D(body, x) suffix
DerivativeInput(prefix, body, suffix) ==
    prefix \o <<"D", "(">> \o body \o <<",", "x", ")">> \o suffix

\* "D(x^2+5, x) + 5"
DerivativeExample ==
    <<"D", "(", "x", "^", "2", "+", "5", ",", " ", "x", ")", " ", "+", " ", "5">>

\* equation strings with special literals, and strings that do not compile
OtherEquations ==
    {<<"n", "a", "n", "+", "n", "a", "n">>, <<"i", "n", "f", "+", "i", "n", "f">>,
     <<"2", "+", "2">>, <<"0", ".", "5", "+", ".", "5">>, <<"s", "i", "n", "(", "x">>, <<"q">>,
     <<"r", "a", "d", "i", "u", "s">>,
     <<"p", "[", "0", "]", ".", "h", "u", "e">>,
     <<"D", "(", "x", ",", " ", "r", "a", "d", "i", "u", "s", ")">>,
     <<"t", "h", "e", "t", "a", "+", "o", "m", "e", "g", "a", "*", "t", ",", " ", "p", "i", "*", "e", ",", " ", "D", "(", "k", "*", "x", ",", " ", "t", "h", "e", "t", "a", ")">>}

\* the equation strings of the equation runs
EquationInputs ==
    {Join(f, Len(f)) : f \in PieceTuples(MaxChannels)}
        \cup {DerivativeInput(p, b, s) :
                 p \in DerivativePrefixes, b \in DerivativeBodies, s \in DerivativeSuffixes}
        \cup {SevenChannels, DerivativeExample, DefaultEquationString, TextColour}
        \cup OtherEquations

InitEquation ==
    /\ InitRegistry
    /\ expression = <<>>
    /\ tokens = Fail("")
    /\ rpn = Fail("")
    /\ pc = "source"
    /\ equation_text \in EquationInputs
    /\ parsed_eq = ParseEquation(<<>>)
    /\ serialized_eq = serializeEquationForGPU(ParseEquation(<<>>).eq)
    /\ NoCalls
    /\ NoConstraints
    /\ NoSteps

\* ParsedEquation parsed = ParseEquation(equation_string, context)
CallParseEquation ==
    /\ pc = "source"
    /\ parsed_eq' = ParseEquation(equation_text)
    /\ pc' = IF parsed_eq'.ok THEN "parsed" ELSE "error"
    /\ UNCHANGED <<equation_text, serialized_eq, expression, tokens, rpn, registryVars,
                   kernelVars, callVars, constraintVars, stepVars>>

\* GPUSerializedEquation gpu_eq = serializeEquationForGPU(eq)
CallSerializeEquationForGPU ==
    /\ pc = "parsed"
    /\ serialized_eq' = serializeEquationForGPU(parsed_eq.eq)
    /\ pc' = IF serialized_eq'.ok THEN "serialized" ELSE "rejected"
    /\ UNCHANGED <<equation_text, parsed_eq, expression, tokens, rpn, registryVars,
                   kernelVars, callVars, constraintVars, stepVars>>

\* AddOrGetEquation(equation_string, parsed)
CallAddOrGetEquation ==
    /\ pc = "serialized"
    /\ AddOrGetEquationStep(AddOrGetEquationOn(Registry, equation_text, parsed_eq.eq),
                            equation_text, parsed_eq.eq)
    /\ pc' = "registered"
    /\ UNCHANGED <<expression, tokens, rpn, equationVars, callVars, constraintVars, stepVars>>

NextEquation == CallParseEquation \/ CallSerializeEquationForGPU \/ CallAddOrGetEquation

SpecEquation == InitEquation /\ [][NextEquation]_vars

(***************************************************************************)
(* Properties of the serializer and of ParseEquation                       *)
(***************************************************************************)
\* operator== of float: NaN is equal to nothing
FloatEqual(a, b) == a.kind # "nan" /\ b.kind # "nan" /\ a = b

\* no two entries of the constant sequence pool are equal
NoDuplicates(pool) ==
    \A i, j \in 1..Len(pool) : i # j => ~FloatEqual(pool[i], pool[j])

\* the equation run has the result of serializeEquationForGPU
Serialized == pc \in {"serialized", "registered"}

\* C11: the constant sequence serializeTokensToGPU gives for a channel has no
\* two equal values, also when literals repeat inside and outside derivative
\* calls; for "D(x^2+5, x) + 5" the pool is 2, 5 and both literals 5 are
\* emitted with index 1.
C11_ConstantPoolNoDuplicates ==
    Serialized
       => /\ \A c \in 1..7 : NoDuplicates(serialized_eq.constantBuffer[c])
          /\ equation_text = DerivativeExample
                => /\ serialized_eq.constantBuffer[1] = <<Float(2, 0), Float(5, 0)>>
                   /\ serialized_eq.tokenBuffer[1]
                        = <<33, 1, 1, 0, 8, 1, 1, 0, 0, 8, 0, 1, 3, 0, 1, 3>>

\* "D(x^2+5, x) + 5" was serialized
C11_Witness ==
    /\ pc = "serialized"
    /\ equation_text = DerivativeExample
    /\ Len(serialized_eq.constantBuffer[1]) = 2
    /\ serialized_eq.tokenBuffer[1][12] = serialized_eq.tokenBuffer[1][15]

RECURSIVE NumberOperands(_, _)
\* the opcode stream buf read as instructions from position n on: the integer
\* after every NUMBER opcode (-1 when there is none); a VARIABLE instruction
\* takes 2 entries, an OBJECT_REF 3, the header of a DERIVATIVE record 5 (its
\* body follows as instructions), every other opcode 1
NumberOperands(buf, n) ==
    IF n > Len(buf) THEN <<>>
    ELSE CASE buf[n] = GPUTokens.TOKEN_NUMBER ->
                <<IF n + 1 <= Len(buf) THEN buf[n + 1] ELSE -1>> \o NumberOperands(buf, n + 2)
           [] buf[n] = GPUTokens.TOKEN_VARIABLE -> NumberOperands(buf, n + 2)
           [] buf[n] = GPUTokens.TOKEN_OBJECT_REF -> NumberOperands(buf, n + 3)
           [] buf[n] = GPUTokens.TOKEN_DERIVATIVE -> NumberOperands(buf, n + 5)
           [] OTHER -> NumberOperands(buf, n + 1)

RECURSIVE NumberValues(_)
\* the numeric values of the Number tokens of a postfix sequence in the order
\* they are serialized, those of the derivative expressions included
NumberValues(postfix) ==
    IF postfix = <<>> THEN <<>>
    ELSE (CASE Head(postfix).type = "TOKEN_NUMBER" -> <<Head(postfix).numeric_value>>
            [] Head(postfix).type = "TOKEN_DERIVATIVE" ->
                 NumberValues(Head(postfix).derivative_expr_tokens)
            [] OTHER -> <<>>)
         \o NumberValues(Tail(postfix))

\* every operand of ops is an index into pool, and the NUMBER instructions
\* are those of the Number tokens with the values values, in their order
IndicesValid(ops, pool, values) ==
    /\ \A n \in 1..Len(ops) : ops[n] >= 0 /\ ops[n] < Len(pool)
    /\ Len(ops) = Len(values)
    /\ \A n \in 1..Len(ops) : pool[ops[n] + 1] = values[n]

\* C12: in the opcode stream of every channel, the integer after every NUMBER
\* instruction (inside derivative records too) is an index into the channel's
\* constant sequence, and the constant there is the value of the Number token
\* the instruction was generated from.
C12_ConstantIndicesInRange ==
    Serialized
       => \A c \in 1..7 :
             IndicesValid(NumberOperands(serialized_eq.tokenBuffer[c], 1),
                          serialized_eq.constantBuffer[c],
                          NumberValues(ChannelTokens(parsed_eq.eq, Channels[c])))

\* the reference for a Derivative token: sub is the expression serialized
\* directly against the pool of st; the header, then the L integers of sub
InlineDerivative(token, st, sub) ==
    [sub EXCEPT !.tokenBuffer =
        st.tokenBuffer
          \o <<GPUTokens.TOKEN_DERIVATIVE, hashVariableName(token.derivative_wrt).code,
               token.derivative_order, DerivativeMethods[token.derivative_method],
               Len(sub.tokenBuffer)>>
          \o sub.tokenBuffer]

RECURSIVE InlineSerialize(_, _)
\* the reference serialization: as serializeTokensToGPU, but the expression of
\* a Derivative token is serialized against the constant map and buffer of
\* the enclosing sequence, with no local pool and no rewriting
InlineSerialize(postfix, st) ==
    IF postfix = <<>> \/ ~st.ok THEN st
    ELSE IF Head(postfix).type = "TOKEN_DERIVATIVE"
    THEN InlineSerialize(Tail(postfix),
             InlineDerivative(Head(postfix), st,
                 InlineSerialize(Head(postfix).derivative_expr_tokens,
                                 [st EXCEPT !.tokenBuffer = <<>>])))
    ELSE InlineSerialize(Tail(postfix), SerializeToken(Head(postfix), st))

\* C17: the opcode stream of every channel is the one the reference
\* serialization gives: a Derivative token becomes its 5 header entries, the
\* last being the number L of integers that follow, then the expression as it
\* would be serialized directly against the outer constant map.
C17_MergeEqualsInline ==
    Serialized
       => \A c \in 1..7 :
             serialized_eq.tokenBuffer[c]
               = InlineSerialize(ChannelTokens(parsed_eq.eq, Channels[c]),
                                 EmptySerialized).tokenBuffer

\* the postfix sequence of one piece compiled by itself; none for a piece
\* that is empty or blank
PieceTokens(piece) ==
    IF trim(piece) = <<>> THEN <<>>
    ELSE RPNOf(tokenizeExpression(trim(piece))).tokens

\* the equation run has the result of a ParseEquation that returned
Parsed == pc \in {"parsed", "serialized", "rejected", "registered"}

\* the equation joined from the pieces f has piece number c in channel c and
\* nothing in the channels after the last piece
SplitsInto(f) ==
    \A c \in 1..7 :
        ChannelTokens(parsed_eq.eq, Channels[c])
          = IF c <= Len(f) THEN PieceTokens(f[c]) ELSE <<>>

\* " 1 ,,max(x,2)": a blank-padded piece, an empty piece, a comma in parentheses
SplitExample == <<" ", "1", " ", ",", ",", "m", "a", "x", "(", "x", ",", "2", ")">>

SameAsAlone(c, alone) ==
    /\ alone.ok
    /\ serialized_eq.tokenBuffer[c] = alone.tokenBuffer[1]
    /\ serialized_eq.constantBuffer[c] = alone.constantBuffer[1]

\* the constants of the default equation, which Objects::Init registered
InitialConstants == InitialRegistry.reg.allConstants

\* C14: the opcodes and constants of channel c are those of the piece of
\* channel c serialized by itself, whatever the other channels hold, so a
\* literal in two channels has an entry in the pool of each; registering
\* "vx, vy, 0, 1, 1, 1, 1" appends the 5 constants 0, 1, 1, 1, 1.
C14_PerChannelPools ==
    /\ \A f \in PieceTuples(MaxChannels) :
          (Serialized /\ equation_text = Join(f, Len(f)))
             => \A c \in 1..Len(f) :
                   SameAsAlone(c, serializeEquationForGPU(ParseEquation(f[c]).eq))
    /\ (Serialized /\ equation_text = SevenChannels)
          => serialized_eq.constantBuffer
               = [c \in 1..7 |-> CASE c \in 1..2 -> <<>>
                                   [] c = 3 -> <<Float(0, 0)>>
                                   [] OTHER -> <<Float(1, 0)>>]
    /\ pc = "registered"
          => g_allConstants = InitialConstants \o Concat(serialized_eq.constantBuffer, 7)

\* "vx, vy, 0, 1, 1, 1, 1" was registered: 5 constants more than before
C14_Witness ==
    /\ pc = "registered"
    /\ last.outcome = "new"
    /\ equation_text = SevenChannels
    /\ g_allConstants
         = InitialConstants \o <<Float(0, 0), Float(1, 0), Float(1, 0), Float(1, 0), Float(1, 0)>>

(***************************************************************************)
(* Properties of the expression compiler: errors, minus and precedence     *)
(***************************************************************************)
RECURSIVE ParenFault(_, _, _)
\* the first fault of the infix sequence from token number n on, depth open
\* parens being unmatched before it: "close" for a close paren at depth 0,
\* "comma" for a comma at depth 0, "open" for an open paren that is never
\* closed, "none" otherwise
ParenFault(infixTokens, n, depth) ==
    IF n > Len(infixTokens) THEN (IF depth > 0 THEN "open" ELSE "none")
    ELSE CASE infixTokens[n].type = "TOKEN_OPEN_PAREN" ->
                ParenFault(infixTokens, n + 1, depth + 1)
           [] infixTokens[n].type = "TOKEN_CLOSE_PAREN" ->
                IF depth = 0 THEN "close" ELSE ParenFault(infixTokens, n + 1, depth - 1)
           [] infixTokens[n].type = "TOKEN_COMMA" ->
                IF depth = 0 THEN "comma" ELSE ParenFault(infixTokens, n + 1, depth)
           [] OTHER -> ParenFault(infixTokens, n + 1, depth)

\* the compiler run has called infixToRPN on the tokens of the expression
Converted == tokens.ok /\ pc \in {"done", "error"}

\* C15: infixToRPN fails and returns no postfix sequence for a token sequence
\* with an open paren that is never closed, a close paren that closes nothing
\* or a comma outside every open paren; ParseEquation of a string with such
\* a paren throws.
C15_ParenthesisErrors ==
    (Converted /\ ParenFault(tokens.tokens, 1, 0) # "none")
       => /\ pc = "error"
          /\ ~rpn.ok
          /\ rpn.tokens = <<>>
          /\ ParenFault(tokens.tokens, 1, 0) \in {"open", "close"}
                => ~ParseEquation(expression).ok

\* "sin(x" was tokenized and infixToRPN threw
C15_Witness ==
    /\ pc = "error"
    /\ expression = <<"s", "i", "n", "(", "x">>
    /\ tokens.ok
    /\ Len(tokens.tokens) = 3
    /\ ~rpn.ok

\* the text is an integer from 1 to 4, blanks around it aside
IsOrderText(text) == trim(text) \in {<<"1">>, <<"2">>, <<"3">>, <<"4">>}

\* the order part of a derivative call is absent or a comma and such an integer
OrderValid(order) == order = <<>> \/ IsOrderText(Tail(order))

RECURSIVE DerivativesValid(_)
\* every Derivative token of the sequence, and of the expressions of its
\* Derivative tokens, has an order from 1 to 4 and a differentiable variable
DerivativesValid(seq) ==
    \/ seq = <<>>
    \/ /\ Head(seq).type = "TOKEN_DERIVATIVE"
          => /\ Head(seq).derivative_order \in 1..4
             /\ isValidDerivativeWRT(Head(seq).derivative_wrt)
             /\ DerivativesValid(Head(seq).derivative_expr_tokens)
       /\ DerivativesValid(Tail(seq))

\* "D(x, t_unregistered)"
UnregisteredExample == DerivativeCallInput(<<" ", "t", "_", "u", "n", "r", "e", "g", "i", "s", "t", "e", "r", "e", "d">>, <<>>, <<")">>)

\* C16: a derivative call D(x, wrt [, order]) is tokenized only when it is
\* closed by ')', wrt is a registered differentiable variable and the order,
\* when given, is an integer from 1 to 4; every Derivative token of a token
\* sequence has an order from 1 to 4 (1 when none is given) and a
\* differentiable variable; "D(x, t_unregistered)" is an error.
C16_DerivativeValidation ==
    /\ \A w \in WrtTexts, o \in OrderParts, cl \in Closers :
          (tokens.ok /\ expression = DerivativeCallInput(w, o, cl))
             => /\ cl = <<")">>
                /\ isValidDerivativeWRT(Str(trim(w)))
                /\ OrderValid(o)
                /\ o = <<>> => tokens.tokens[1].derivative_order = 1
    /\ tokens.ok => DerivativesValid(tokens.tokens)
    /\ expression = UnregisteredExample => pc \in {"start", "error"}

\* the rule as claimed: a '-' is a negation when no token came before it or
\* the token before it is an open paren, a comma, a binary operator or NEG
ClaimedNegation(seq) ==
    \/ seq = <<>>
    \/ seq[Len(seq)].type \in
          {"TOKEN_OPEN_PAREN", "TOKEN_COMMA", "TOKEN_ADD", "TOKEN_SUB", "TOKEN_MUL",
           "TOKEN_DIV", "TOKEN_POW", "TOKEN_NEG"}

\* lexed is the tokenization of the expression with a '-' appended: the
\* tokens of the expression, then NEG or SUB as the rule says
MinusClassified(lexed) ==
    /\ lexed.ok
    /\ lexed.tokens
         = Append(tokens.tokens,
                  Token(IF ClaimedNegation(tokens.tokens) THEN "TOKEN_NEG" ELSE "TOKEN_SUB"))

\* C18: a '-' that follows an expression is tokenized as NEG exactly when the
\* expression has no token or its last token is an open paren, a comma, ADD,
\* SUB, MUL, DIV, POW or NEG, and as SUB otherwise; "--x" gives NEG, NEG, x.
C18_LexerMinusRule ==
    tokens.ok
       => /\ MinusClassified(tokenizeExpression(expression \o <<"-">>))
          /\ expression = <<"-", "-", "x">>
                => tokens.tokens
                     = <<Token("TOKEN_NEG"), Token("TOKEN_NEG"), TokenVariable("x")>>

\* the postfix sequence of the expression a compiled by itself
Postfix(a) == RPNOf(tokenizeExpression(a)).tokens

\* C19: for primaries A and B, -A^B compiles to A B POW NEG and -A*B to
\* A NEG B MUL, whether A is bare or parenthesised.
C19_NegationBelowPower ==
    \A A, B \in Primaries :
       /\ expression = NegatedPower(A, B)
             => /\ pc # "error"
                /\ pc = "done"
                     => rpn.tokens = Postfix(A) \o Postfix(B)
                                       \o <<Token("TOKEN_POW"), Token("TOKEN_NEG")>>
       /\ expression = NegatedProduct(A, B)
             => /\ pc # "error"
                /\ pc = "done"
                     => rpn.tokens = Postfix(A) \o <<Token("TOKEN_NEG")>> \o Postfix(B)
                                       \o <<Token("TOKEN_MUL")>>

(***************************************************************************)
(* Consistency of the mapping records                                      *)
(***************************************************************************)
\* the entries [tokenOffset, tokenOffset + tokenCount) of the shared token
\* buffer that the channel record m names
Slice(m) == SubSeq(g_allTokens, m.tokenOffset + 1, m.tokenOffset + m.tokenCount)

\* the channel record m is consistent with the opcodes and constants that
\* were serialized for its channel
ChannelConsistent(m, tokenBuffer, constantBuffer) ==
    /\ m.tokenOffset >= 0
    /\ m.tokenOffset + m.tokenCount <= Len(g_allTokens)
    /\ Slice(m) = tokenBuffer
    /\ \A n \in 1..Len(NumberOperands(tokenBuffer, 1)) :
          /\ m.constantOffset + NumberOperands(tokenBuffer, 1)[n] >= 0
          /\ m.constantOffset + NumberOperands(tokenBuffer, 1)[n] < Len(g_allConstants)
          /\ g_allConstants[m.constantOffset + NumberOperands(tokenBuffer, 1)[n] + 1]
               = constantBuffer[NumberOperands(tokenBuffer, 1)[n] + 1]

\* the regions of the channel records m1 and m2 have no entry in common
RegionsDisjoint(m1, m2) ==
    \/ m1.tokenCount = 0
    \/ m2.tokenCount = 0
    \/ m1.tokenOffset + m1.tokenCount <= m2.tokenOffset
    \/ m2.tokenOffset + m2.tokenCount <= m1.tokenOffset

\* C20: for every text of the table and every channel, the mapping record of
\* the text's ID names a region inside the shared token buffer that holds the
\* opcodes serialized for that channel of the equation registered under the
\* text, every NUMBER operand of it plus the constant offset is the place of
\* the literal's value in the shared constant buffer, and the regions of
\* different channels and of different texts are disjoint.
C20_MappingConsistency ==
    /\ \A t \in DOMAIN g_equationStringToID : \A c \in 1..7 :
          ChannelConsistent(g_equationMappings[g_equationStringToID[t]][c],
                            registered[t].tokenBuffer[c], registered[t].constantBuffer[c])
    /\ \A t1, t2 \in DOMAIN g_equationStringToID : \A c1, c2 \in 1..7 :
          (t1 # t2 \/ c1 # c2)
             => RegionsDisjoint(g_equationMappings[g_equationStringToID[t1]][c1],
                                g_equationMappings[g_equationStringToID[t2]][c2])

(***************************************************************************)
(* AddOrGetEquation statement by statement (objects.cpp 816-916)           *)
(*                                                                         *)
(* Each caller runs the statements of AddOrGetEquation in program order;   *)
(* the function takes no lock, so the statements of two callers interleave *)
(* freely.  The free-slot scan and each insert are taken as one step.      *)
(***************************************************************************)
\* the texts the stepwise calls are made with, each with its own ParsedEquation
CallTexts == {TextX, TextKY, TextColour}

\* caller c is at statement at
At(c, at) == calls[c].pc = at

\* caller c moves on with the locals l
Goto(c, l) == calls' = [calls EXCEPT ![c] = l]

\* the call of caller c returns ret: its locals are gone, the history keeps
\* the text, how the call ended and the value returned
ReturnFrom(c, outcome, ret) ==
    Goto(c, [IdleCall EXCEPT !.equationString = calls[c].equationString,
                             !.outcome = outcome, !.ret = ret])

\* entry of AddOrGetEquation(equationString, eq): the lookup of the text in
\* g_equationStringToID, and for a text that is not there the call of
\* serializeEquationForGPU, whose exception ends the call
BeginAddOrGetEquation(c, equationString) ==
    /\ At(c, "idle")
    /\ started < MaxCalls
    /\ started' = started + 1
    /\ overlapped' = (overlapped \/ \E d \in Callers \ {c} : ~At(d, "idle"))
    /\ IF equationString \in DOMAIN g_equationStringToID
       THEN Goto(c, [IdleCall EXCEPT !.equationString = equationString,
                                     !.outcome = "cached",
                                     !.ret = g_equationStringToID[equationString]])
       ELSE IF ~serializeEquationForGPU(ParseEquation(equationString).eq).ok
       THEN Goto(c, [IdleCall EXCEPT !.equationString = equationString,
                                     !.outcome = "throw"])
       ELSE Goto(c, [IdleCall EXCEPT
                        !.pc = "scan", !.equationString = equationString,
                        !.gpu_eq = serializeEquationForGPU(ParseEquation(equationString).eq)])
    /\ UNCHANGED <<registryVars, kernelVars, compilerVars, equationVars, constraintVars, stepVars>>

\* "Find available equation slot", and the return of 0 when there is none
ScanFreeSlot(c) ==
    /\ At(c, "scan")
    /\ IF FindFreeSlot(g_equationMappings) = -1
       THEN ReturnFrom(c, "full", 0)
       ELSE Goto(c, [calls[c] EXCEPT !.pc = "offsets",
                                     !.newID = FindFreeSlot(g_equationMappings)])
    /\ capacityHit' = (capacityHit \/ FindFreeSlot(g_equationMappings) = -1)
    /\ UNCHANGED <<g_allTokens, g_allConstants, g_equationMappings, g_equationStringToID,
                   objects, issued, registered, last, overlapped, started,
                   kernelVars, compilerVars, equationVars, constraintVars, stepVars>>

\* "Calculate offsets for equation components": the sizes of the shared
\* buffers are read and the local EquationMapping is filled in
CalculateOffsets(c) ==
    /\ At(c, "offsets")
    /\ Goto(c, [calls[c] EXCEPT
                   !.pc = "store",
                   !.mapping = BuildMapping(Len(g_allTokens), Len(g_allConstants),
                                            calls[c].gpu_eq)])
    /\ UNCHANGED <<registryVars, overlapped, started, kernelVars, compilerVars, equationVars,
                   constraintVars, stepVars>>

\* g_equationMappings[newID] = mapping
StoreMapping(c) ==
    /\ At(c, "store")
    /\ g_equationMappings' = [g_equationMappings EXCEPT ![calls[c].newID] = calls[c].mapping]
    /\ Goto(c, [calls[c] EXCEPT !.pc = "table"])
    /\ UNCHANGED <<g_allTokens, g_allConstants, g_equationStringToID, objects, issued,
                   registered, capacityHit, last, overlapped, started,
                   kernelVars, compilerVars, equationVars, constraintVars, stepVars>>

\* g_equationStringToID[equationString] = newID
StoreStringToID(c) ==
    /\ At(c, "table")
    /\ g_equationStringToID' =
           (calls[c].equationString :> calls[c].newID) @@ g_equationStringToID
    /\ registered' = (calls[c].equationString :> calls[c].gpu_eq) @@ registered
    /\ Goto(c, [calls[c] EXCEPT !.pc = "tokens", !.n = 1])
    /\ UNCHANGED <<g_allTokens, g_allConstants, g_equationMappings, objects, issued,
                   capacityHit, last, overlapped, started,
                   kernelVars, compilerVars, equationVars, constraintVars, stepVars>>

\* g_allTokens.insert(g_allTokens.end(), ...) for channel n
AppendTokens(c) ==
    /\ At(c, "tokens")
    /\ g_allTokens' = g_allTokens \o calls[c].gpu_eq.tokenBuffer[calls[c].n]
    /\ Goto(c, IF calls[c].n < 7 THEN [calls[c] EXCEPT !.n = @ + 1]
               ELSE [calls[c] EXCEPT !.pc = "constants", !.n = 1])
    /\ UNCHANGED <<g_allConstants, g_equationMappings, g_equationStringToID, objects,
                   issued, registered, capacityHit, last, overlapped, started,
                   kernelVars, compilerVars, equationVars, constraintVars, stepVars>>

\* g_allConstants.insert(g_allConstants.end(), ...) for channel n
AppendConstants(c) ==
    /\ At(c, "constants")
    /\ g_allConstants' = g_allConstants \o calls[c].gpu_eq.constantBuffer[calls[c].n]
    /\ Goto(c, IF calls[c].n < 7 THEN [calls[c] EXCEPT !.n = @ + 1]
               ELSE [calls[c] EXCEPT !.pc = "uploadTokens", !.n = 0])
    /\ UNCHANGED <<g_allTokens, g_equationMappings, g_equationStringToID, objects,
                   issued, registered, capacityHit, last, overlapped, started,
                   kernelVars, compilerVars, equationVars, constraintVars, stepVars>>

\* UploadPackedEquationsToGPU: glBufferData of g_allTokens
UploadTokens(c) ==
    /\ At(c, "uploadTokens")
    /\ g_allTokensSSBO' = g_allTokens
    /\ Goto(c, [calls[c] EXCEPT !.pc = "uploadConstants"])
    /\ UNCHANGED <<registryVars, overlapped, started, g_allConstantsSSBO, g_mappingsSSBO,
                   compilerVars, equationVars, constraintVars, stepVars>>

\* UploadPackedEquationsToGPU: glBufferData of g_allConstants
UploadConstants(c) ==
    /\ At(c, "uploadConstants")
    /\ g_allConstantsSSBO' = g_allConstants
    /\ Goto(c, [calls[c] EXCEPT !.pc = "uploadMappings"])
    /\ UNCHANGED <<registryVars, overlapped, started, g_allTokensSSBO, g_mappingsSSBO,
                   compilerVars, equationVars, constraintVars, stepVars>>

\* glBufferSubData of g_equationMappings into g_mappingsSSBO, and return newID
UploadMappings(c) ==
    /\ At(c, "uploadMappings")
    /\ g_mappingsSSBO' = g_equationMappings
    /\ ReturnFrom(c, "new", calls[c].newID)
    /\ issued' = (calls[c].equationString :> calls[c].newID) @@ issued
    /\ UNCHANGED <<g_allTokens, g_allConstants, g_equationMappings, g_equationStringToID,
                   objects, registered, capacityHit, last, overlapped, started,
                   g_allTokensSSBO, g_allConstantsSSBO,
                   compilerVars, equationVars, constraintVars, stepVars>>

InitCalls ==
    /\ InitRegistry
    /\ expression = <<>>
    /\ pc = "calls"
    /\ tokens = Fail("")
    /\ rpn = Fail("")
    /\ NoEquationRun
    /\ NoCalls
    /\ NoConstraints
    /\ NoSteps

NextCalls ==
    \E c \in Callers :
        \/ \E t \in CallTexts : BeginAddOrGetEquation(c, t)
        \/ ScanFreeSlot(c)
        \/ CalculateOffsets(c)
        \/ StoreMapping(c)
        \/ StoreStringToID(c)
        \/ AppendTokens(c)
        \/ AppendConstants(c)
        \/ UploadTokens(c)
        \/ UploadConstants(c)
        \/ UploadMappings(c)

SpecCalls == InitCalls /\ [][NextCalls]_vars

(***************************************************************************)
(* Properties of the stepwise calls                                        *)
(***************************************************************************)
\* every record of mappings names a region inside the buffers toks and consts
MappingsWithin(mappings, toks, consts) ==
    \A id \in 0..(MAX_EQUATIONS - 1), n \in 1..7 :
        /\ mappings[id][n].tokenOffset + mappings[id][n].tokenCount <= Len(toks)
        /\ mappings[id][n].constantOffset <= Len(consts)

\* what the kernel can see: the uploaded mappings against the uploaded buffers
KernelMappingsWithin == MappingsWithin(g_mappingsSSBO, g_allTokensSSBO, g_allConstantsSSBO)

\* C21 (publish after append): while calls run one after the other, at every
\* step of AddOrGetEquation every mapping record in g_equationMappings names a
\* region that lies inside g_allTokens and g_allConstants as they are at that
\* step, and every uploaded mapping record names a region inside the uploaded
\* buffers.
C21_PublishAfterAppend ==
    ~overlapped =>
        /\ MappingsWithin(g_equationMappings, g_allTokens, g_allConstants)
        /\ KernelMappingsWithin

\* the part of C21 about the uploads alone
C21_UploadOrder == ~overlapped => KernelMappingsWithin

\* every stepwise call has returned
AllReturned == \A c \in Callers : At(c, "idle")

\* the mapping record of the ID of text t names, channel by channel, the
\* opcodes and constants that were serialized for t
PointsAtOwnData(t) ==
    \A n \in 1..7 :
        ChannelConsistent(g_equationMappings[g_equationStringToID[t]][n],
                          registered[t].tokenBuffer[n], registered[t].constantBuffer[n])

\* the ax, ay or angular channel of the equation registered under t is not empty
HasMotionChannel(t) == \E n \in 1..3 : registered[t].tokenBuffer[n] # <<>>

\* C22 (calls made one after the other): when every call has completed before
\* the next one started, a later call for a new text has seen the slots of the
\* earlier ones as taken and computed its offsets from the grown buffers:
\* distinct texts have distinct IDs and the record of every text's ID names
\* that text's own data.
C22_SerializedCalls ==
    (AllReturned /\ ~overlapped)
       => /\ \A t1, t2 \in DOMAIN g_equationStringToID :
                t1 # t2 => g_equationStringToID[t1] # g_equationStringToID[t2]
          /\ \A t \in DOMAIN g_equationStringToID : PointsAtOwnData(t)

\* C22 restricted to equations whose slot the free-slot scan sees as taken
C22_SerializedMotionCalls ==
    (AllReturned /\ ~overlapped /\ \A t \in DOMAIN g_equationStringToID : HasMotionChannel(t))
       => /\ \A t1, t2 \in DOMAIN g_equationStringToID :
                t1 # t2 => g_equationStringToID[t1] # g_equationStringToID[t2]
          /\ \A t \in DOMAIN g_equationStringToID : PointsAtOwnData(t)

\* two calls for two distinct new texts interleaved, both registered an
\* equation with a motion channel, both returned the same ID, and the record of
\* that ID does not name the data of one of them
C22_Witness ==
    /\ AllReturned
    /\ overlapped
    /\ \E c, d \in Callers :
          /\ calls[c].outcome = "new"
          /\ calls[d].outcome = "new"
          /\ calls[c].equationString # calls[d].equationString
          /\ HasMotionChannel(calls[c].equationString)
          /\ HasMotionChannel(calls[d].equationString)
          /\ calls[c].ret = calls[d].ret
          /\ ~PointsAtOwnData(calls[c].equationString)

(***************************************************************************)
(* Properties of the lexer's derivative, lexeme and operator handling      *)
(***************************************************************************)
\* the run has lexed its expression
Lexed == pc \in {"lexed", "done"} \/ (pc = "error" /\ tokens.ok)

\* the one Derivative token of the call text call
DerivativeOf(call) == parseDerivativeCall(call, 1).tokens

\* the five-token group ( 0 - D )
Wrapped(derivative) ==
    <<Token("TOKEN_OPEN_PAREN"), TokenNumber(Float(0, 0)), Token("TOKEN_SUB")>>
        \o derivative \o <<Token("TOKEN_CLOSE_PAREN")>>

\* the tokens of post when it follows an operand
TokensAfterOperand(post) == Tail(tokenizeExpression(<<"x">> \o post).tokens)

\* the tokens claimed for pre D(...) post, before being the tokens of pre alone
ClaimedAround(before, call, post) ==
    IF before # <<>> /\ before[Len(before)].type = "TOKEN_NEG"
    THEN SubSeq(before, 1, Len(before) - 1) \o Wrapped(DerivativeOf(call))
            \o TokensAfterOperand(post)
    ELSE before \o DerivativeOf(call) \o TokensAfterOperand(post)

\* C23 (negated derivative wrapping): for an expression pre D(...) post, when
\* the tokens of pre end with a unary minus that minus is removed and the
\* group ( 0 - D ) stands in its place, otherwise the tokens of pre are
\* followed by the one Derivative token; and "-D(...)" compiles to the
\* postfix 0 D SUB.
C23_NegatedDerivative ==
    \A pre \in DerivativePres, call \in DerivativeCalls, post \in DerivativePosts :
        expression = AroundDerivative(pre, call, post) /\ pc # "start"
           => /\ tokens.ok
              /\ tokens.tokens = ClaimedAround(tokenizeExpression(pre).tokens, call, post)
              /\ (pre = <<"-">> /\ post = <<>> /\ pc = "done")
                    => rpn.tokens = <<TokenNumber(Float(0, 0))>> \o DerivativeOf(call)
                                       \o <<Token("TOKEN_SUB")>>

\* "-D(-x, y, 2)" was compiled
C23_Witness ==
    /\ pc = "done"
    /\ expression = AroundDerivative(<<"-">>, <<"D", "(", "-", "x", ",", " ", "y", ",", " ", "2", ")">>, <<>>)
    /\ Len(rpn.tokens) = 3
    /\ rpn.tokens[2].type = "TOKEN_DERIVATIVE"
    /\ rpn.tokens[2].derivative_order = 2
    /\ rpn.tokens[3].type = "TOKEN_SUB"

\* s is a decimal floating-point literal from its first to its last
\* character: digits with an optional point, at least one digit, and an
\* optional exponent (a lexeme holds no sign)
IsDecimalLiteral(s) ==
    LET intEnd  == ScanDigits(s, 1)
        hasDot  == intEnd <= Len(s) /\ s[intEnd] = "."
        fracEnd == IF hasDot THEN ScanDigits(s, intEnd + 1) ELSE intEnd
        nDigits == (intEnd - 1) + (IF hasDot THEN fracEnd - intEnd - 1 ELSE 0)
    IN  /\ nDigits > 0
        /\ \/ fracEnd = Len(s) + 1
           \/ /\ s[fracEnd] \in {"e", "E"}
              /\ ScanDigits(s, fracEnd + 1) > fracEnd + 1
              /\ ScanDigits(s, fracEnd + 1) = Len(s) + 1

\* s is a floating-point literal in its entirety: a decimal literal, a
\* hexadecimal integer, or one of the words inf, infinity and nan
IsFloatLiteral(s) ==
    \/ IsDecimalLiteral(s)
    \/ /\ Len(s) >= 3
       /\ s[1] = "0"
       /\ s[2] \in {"x", "X"}
       /\ \A j \in 3..Len(s) : s[j] \in HexDigits
    \/ /\ Len(s) = 3
       /\ \/ HasPrefixNoCase(s, <<"i", "n", "f">>, <<"I", "N", "F">>)
          \/ HasPrefixNoCase(s, <<"n", "a", "n">>, <<"N", "A", "N">>)
    \/ /\ Len(s) = 8
       /\ HasPrefixNoCase(s, <<"i", "n", "f", "i", "n", "i", "t", "y">>,
                          <<"I", "N", "F", "I", "N", "I", "T", "Y">>)

\* the lexeme is one the lexer is to accept
KnownLexeme(s) ==
    \/ Str(s) \in DOMAIN s_functionMap
    \/ isValidVariable(Str(s))
    \/ IsFloatLiteral(s)

\* C24 (unknown lexemes are rejected): an expression that is one lexeme is
\* lexed without error exactly when the lexeme is a function name, a
\* registered variable or a floating-point literal in its entirety; "2x" and
\* "3abc" are rejected.
C24_UnknownLexemesRejected ==
    \A s \in LexemeInputs :
        expression = s /\ pc # "start" => (tokens.ok <=> KnownLexeme(s))

\* what the lexer does instead: a lexeme that only starts with a number is
\* accepted as well, and becomes the Number token of that prefix
C24_NumberPrefixesAccepted ==
    \A s \in LexemeInputs :
        expression = s /\ pc # "start"
           => /\ tokens.ok <=> (KnownLexeme(s) \/ stof(s).ok)
              /\ (tokens.ok /\ ~KnownLexeme(s)) => tokens.tokens = <<TokenNumber(stof(s).value)>>

\* the token of the binary operator written op
BinaryToken(op) ==
    Token(CASE op = "+" -> "TOKEN_ADD" [] op = "-" -> "TOKEN_SUB" [] op = "*" -> "TOKEN_MUL"
            [] op = "/" -> "TOKEN_DIV" [] op = "^" -> "TOKEN_POW")

prec(op) == s_operatorInfo[BinaryToken(op).type].precedence

LeftAssociative(op) == ~s_operatorInfo[BinaryToken(op).type].rightAssociative

\* the token of the operand text a
OperandOf(a) == tokenizeExpression(a).tokens

\* the postfix claimed for a op1 b op2 c
ClaimedBinary(a, op1, b, op2, c) ==
    IF prec(op1) > prec(op2) \/ (prec(op1) = prec(op2) /\ LeftAssociative(op2))
    THEN OperandOf(a) \o OperandOf(b) \o <<BinaryToken(op1)>> \o OperandOf(c)
            \o <<BinaryToken(op2)>>
    ELSE OperandOf(a) \o OperandOf(b) \o OperandOf(c) \o <<BinaryToken(op2)>>
            \o <<BinaryToken(op1)>>

\* the run compiled a op1 b op2 c
CompiledBinary(a, op1, b, op2, c) ==
    expression = BinaryInput(a, op1, b, op2, c) /\ pc \notin {"start", "lexed"}

\* C25 (binary operator ordering): a op1 b op2 c compiles to a b op1 c op2
\* when op1 binds tighter than op2, or as tight and op2 is left-associative,
\* and to a b c op2 op1 otherwise; a-b-c is (a-b)-c, a/b*c is (a/b)*c and
\* a+b*c is a+(b*c).
C25_BinaryOperatorOrdering ==
    \A a \in BinaryOperands, op1 \in BinaryOperators :
        IsPrefix(a \o <<op1>>, expression) =>
            \A b \in BinaryOperands, op2 \in BinaryOperators, c \in BinaryOperands :
                CompiledBinary(a, op1, b, op2, c)
                   => /\ pc = "done"
                      /\ rpn.tokens = ClaimedBinary(a, op1, b, op2, c)
                      /\ (op1 = "-" /\ op2 = "-")
                            => rpn.tokens = OperandOf(a) \o OperandOf(b)
                                   \o <<Token("TOKEN_SUB")>> \o OperandOf(c)
                                   \o <<Token("TOKEN_SUB")>>
                      /\ (op1 = "/" /\ op2 = "*")
                            => rpn.tokens = OperandOf(a) \o OperandOf(b)
                                   \o <<Token("TOKEN_DIV")>> \o OperandOf(c)
                                   \o <<Token("TOKEN_MUL")>>
                      /\ (op1 = "+" /\ op2 = "*")
                            => rpn.tokens = OperandOf(a) \o OperandOf(b) \o OperandOf(c)
                                   \o <<Token("TOKEN_MUL"), Token("TOKEN_ADD")>>

\* "x-k-2" was compiled to x k SUB 2 SUB
C25_Witness ==
    /\ pc = "done"
    /\ expression = BinaryInput(<<"x">>, "-", <<"k">>, "-", <<"2">>)
    /\ rpn.tokens = <<TokenVariable("x"), TokenVariable("k"), Token("TOKEN_SUB"),
                      TokenNumber(Float(2, 0)), Token("TOKEN_SUB")>>

RECURSIVE PostfixOfArguments(_, _)
\* the postfix of the first n arguments, each compiled by itself, in order
PostfixOfArguments(arguments, n) ==
    IF n = 0 THEN <<>>
    ELSE PostfixOfArguments(arguments, n - 1) \o Postfix(arguments[n])

\* the postfix claimed for pre f(a1, ..., an) post: the arguments, then f
ClaimedCall(ctx, f, arguments) ==
    (IF ctx[1] = <<>> THEN <<>> ELSE <<TokenNumber(Float(2, 0))>>)
        \o PostfixOfArguments(arguments, Len(arguments))
        \o <<Token(s_functionMap[Str(f)])>>
        \o (IF ctx[1] = <<>> THEN <<>>
            ELSE <<Token("TOKEN_POW"), TokenNumber(Float(1, 0)), Token("TOKEN_ADD")>>)

\* C26 (function-call collapse): f(a1, ..., an) with n >= 1 compiles to the
\* postfix of a1, ..., an in source order followed directly by one f token,
\* whatever the arity of f is and whatever stands around the call.
C26_FunctionCallCollapse ==
    \A ctx \in CallContexts, f \in FunctionNames :
        IsPrefix(ctx[1] \o f \o <<"(">>, expression) =>
            \A arguments \in ArgumentTuples(MaxArguments) :
                (expression = FunctionCallInput(ctx, f, arguments)
                    /\ pc \notin {"start", "lexed"})
                   => pc = "done" /\ rpn.tokens = ClaimedCall(ctx, f, arguments)

\* "sin(x+2*k,-x)" was compiled: two arguments for a function of arity 1, and
\* the comma popped the pending MUL and ADD
C26_Witness ==
    /\ pc = "done"
    /\ expression = FunctionCallInput(<<<<>>, <<>>>>, <<"s", "i", "n">>,
                                      <<<<"x", "+", "2", "*", "k">>, <<"-", "x">>>>)
    /\ rpn.tokens = <<TokenVariable("x"), TokenNumber(Float(2, 0)), TokenVariable("k"),
                      Token("TOKEN_MUL"), Token("TOKEN_ADD"), TokenVariable("x"),
                      Token("TOKEN_NEG"), Token("TOKEN_SIN")>>

PunctuationTypes == {"TOKEN_OPEN_PAREN", "TOKEN_CLOSE_PAREN", "TOKEN_COMMA"}

IsPunctuation(t) == t.type \in PunctuationTypes

IsOperand(t) == t.type \in OperandTypes

\* how often the token t occurs in seq
Occurrences(t, seq) == Len(SelectSeq(seq, LAMBDA u : u = t))

\* output holds no punctuation and every other token of input exactly as
\* often as input does, the operands in the order of input
PunctuationFreePermutation(input, output) ==
    /\ \A n \in 1..Len(output) : ~IsPunctuation(output[n])
    /\ Len(output) = Len(SelectSeq(input, LAMBDA u : ~IsPunctuation(u)))
    /\ \A n \in 1..Len(input) :
          ~IsPunctuation(input[n])
             => Occurrences(input[n], output) = Occurrences(input[n], input)
    /\ SelectSeq(output, IsOperand) = SelectSeq(input, IsOperand)

RECURSIVE PostfixAtEveryDepth(_)
\* every Derivative token of seq carries a sub-expression without
\* punctuation, whose Derivative tokens do so in turn
PostfixAtEveryDepth(seq) ==
    \A n \in 1..Len(seq) :
        seq[n].type = "TOKEN_DERIVATIVE"
           => /\ \A j \in 1..Len(seq[n].derivative_expr_tokens) :
                    ~IsPunctuation(seq[n].derivative_expr_tokens[j])
              /\ PostfixAtEveryDepth(seq[n].derivative_expr_tokens)

\* C27 (postfix output is a punctuation-free permutation): when infixToRPN
\* returns, its output holds no open paren, close paren or comma, holds every
\* other input token exactly once, and keeps the operands in input order; and
\* the sub-expression of every Derivative token the lexer produced is without
\* punctuation at every nesting depth.
C27_PunctuationFreePermutation ==
    /\ pc = "done" => PunctuationFreePermutation(tokens.tokens, rpn.tokens)
    /\ tokens.ok => PostfixAtEveryDepth(tokens.tokens)

\* "(-D(-D(x,x),x))" was compiled: parens in the input, a derivative nested in
\* a derivative whose inner expression was lexed with parens of its own
C27_Witness ==
    /\ pc = "done"
    /\ expression = AroundDerivative(<<"(", "-">>,
                                     <<"D", "(", "-", "D", "(", "x", ",", "x", ")", ",", "x", ")">>,
                                     <<")">>)
    /\ Len(tokens.tokens) = 7
    /\ Len(rpn.tokens) = 3
    /\ \E j \in 1..Len(rpn.tokens[2].derivative_expr_tokens) :
          rpn.tokens[2].derivative_expr_tokens[j].type = "TOKEN_DERIVATIVE"

(***************************************************************************)
(* Properties of the name tables                                           *)
(***************************************************************************)
RECURSIVE UsesObjectReference(_)
\* the postfix sequence seq holds an object reference, at some depth
UsesObjectReference(seq) ==
    \E n \in 1..Len(seq) :
        \/ seq[n].type = "TOKEN_OBJECT_REF"
        \/ /\ seq[n].type = "TOKEN_DERIVATIVE"
           /\ UsesObjectReference(seq[n].derivative_expr_tokens)

\* the table maps distinct names to distinct codes
Injective(table) ==
    \A n1 \in DOMAIN table, n2 \in DOMAIN table : n1 # n2 => table[n1] # table[n2]

RECURSIVE NamesHaveCodes(_)
\* every Variable token of seq and every differentiation variable of its
\* Derivative tokens, at every depth, is a key of s_variableHashMap
NamesHaveCodes(seq) ==
    \A n \in 1..Len(seq) :
        /\ seq[n].type = "TOKEN_VARIABLE" => seq[n].variable_name \in DOMAIN s_variableHashMap
        /\ seq[n].type = "TOKEN_DERIVATIVE"
              => /\ seq[n].derivative_wrt \in DOMAIN s_variableHashMap
                 /\ NamesHaveCodes(seq[n].derivative_expr_tokens)

\* the equation run has parsed its equation
ParsedRun == pc \in {"parsed", "serialized", "registered", "rejected"}

\* C28 (lexer and serializer agree on variable names): every variable name
\* the lexer accepted in a parsed equation, as a Variable token or as a
\* differentiation variable, has a code, so an equation that parsed and uses no
\* object reference is never rejected by serializeEquationForGPU; and the
\* variable table and the property table map distinct names to distinct codes.
C28_NameTablesAgree ==
    /\ ParsedRun => \A n \in 1..7 : NamesHaveCodes(ChannelTokens(parsed_eq.eq, Channels[n]))
    /\ (pc = "rejected"
          => \E n \in 1..7 : UsesObjectReference(ChannelTokens(parsed_eq.eq, Channels[n])))
    /\ Injective(s_variableHashMap)
    /\ Injective(s_propertyHashMap)

\* the part of C28 that holds: both tables are injective, and an equation
\* without object references is rejected only for the name "radius"
C28_AgreeExceptRadius ==
    /\ DOMAIN m_variables \ {"radius"} \subseteq DOMAIN s_variableHashMap
    /\ (pc = "rejected"
          => \/ \E n \in 1..7 : UsesObjectReference(ChannelTokens(parsed_eq.eq, Channels[n]))
             \/ equation_text \in {<<"r", "a", "d", "i", "u", "s">>,
                                   <<"D", "(", "x", ",", " ", "r", "a", "d", "i", "u", "s", ")">>})
    /\ Injective(s_variableHashMap)
    /\ Injective(s_propertyHashMap)

(***************************************************************************)
(* ParseEquation statement by statement: one action per turn of the        *)
(* splitting loop, of the lexer loop and of the loop of infixToRPN; a      *)
(* D(...) call pushes an activation of tokenizeExpression                  *)
(***************************************************************************)
\* the equation strings of the stepwise compilations
StepInputs ==
    {<<"x">>, <<"-", "k", "*", "x", ",", " ", "-", "k", "*", "y">>,
     <<"p", "[", "1", "]", ".", "x", "+", "2">>,
     <<"-", "D", "(", "x", "^", "2", ",", " ", "x", ")">>,
     <<"D", "(", "D", "(", "x", ",", "x", ")", ",", "x", ")", "*", "2">>,
     <<"s", "i", "n", "(", "x", ")", "+", "m", "a", "x", "(", "x", ",", "2", ")">>,
     <<"2", "x">>, <<"q">>, <<"(", "x">>, <<"x", ")">>, <<"p", "[", "1">>,
     <<"p", "[", "1", "]", "x">>, <<"p", "[", "a", "]", ".", "x">>, <<"D", "(", "x">>,
     <<"D", "(", "x", ",", "q", ")">>,
     <<"x", ",", " ", "y", ",", " ", "0", ",", " ", "1", ",", " ", "0", ",", " ", "0", ",", " ", "1">>,
     <<>>, <<" ", "x", " ", ",", " ", ",", "y">>,
     <<"D", "(", "x", ",", "x", ")", "D", "(", "x", ",", "x", ")">>,
     <<"I", "D", "(", "x", ")">>,
     <<"p", "[", "1", "]", ".", "x", ".", "y", "-", "p", "[", "0", "]", ".", "v", "x">>,
     <<"(", "x", ",", "y", ")", ",", "z">>, <<"x", ",">>, <<"1", "+">>,
     <<"2", "^", "3", "^", "-", "x">>, <<"x", " ", "y">>,
     <<"D", "(", "p", "[", "1", "]", ".", "x", " ", "-", " ", "x", ",", " ", "x", ",", " ", "2", ")">>,
     <<"x", ",", "y", ",", "0", ",", "1", ",", "1", ",", "1", ",", "1", ",", "(">>,
     <<"D", "(", "x", ",", " ", "x", ",", " ", "9", ")">>,
     <<"m", "a", "x", "(", "x", ",", ",", "2", ")">>, <<"D", "(", "2", "x", ",", "x", ")">>,
     <<"D", "(", "-", "D", "(", "x", " ", ",", "x", ")", "+", "D", "(", "(", "x", ",", "x", ")", ",", "x", ")">>,
     <<"2", "x", "D", "(", "x", ",", "x", ")">>, <<"D", "(", "x", ",", "x">>}

\* no D(...) call is pending; of a pending call: whether a unary minus came
\* before it, the pos, paren_depth and expr_str of the first loop of
\* parseDerivativeCall, and its wrt_var, order and end_pos
NoCall ==
    [shouldNegate |-> FALSE, pos |-> 0, paren_depth |-> 0, expr_str |-> <<>>,
     wrt_var |-> "", order |-> 1, end_pos |-> 0]

\* the locals of tokenizeExpression(expression) and of the infixToRPN that
\* follows it: the position i, tokens and currentLexeme of the lexer loop, the
\* number t of the token infixToRPN is at, its output and its stack, and call,
\* the D(...) call this activation is waiting for; branch is history: the
\* branch the last turn of the lexer loop took
NewLexer(e) ==
    [expression |-> e, i |-> 1, tokens |-> <<>>, currentLexeme |-> <<>>,
     branch |-> "none", t |-> 1, output |-> <<>>, stack |-> <<>>, call |-> NoCall]

LexerFail(msg) ==
    [ok |-> FALSE, err |-> msg, i |-> 0, tokens |-> <<>>, currentLexeme |-> <<>>,
     branch |-> "threw"]

\* a faulty variant of ResumeAfterCall: the loop goes on at the closing
\* parenthesis of the call
ResumeAfterCall_AtCloser(i, end_pos) == end_pos

\* "i = end_pos; continue;" and the ++i of the for loop: where the lexer goes
\* on after the D(...) call that started at i and ended at end_pos
ResumeAfterCall(i, end_pos) == end_pos + 1

\* one turn of the lexer loop in the object reference branch: "i = propEnd - 1"
\* and the ++i of the for loop
ObjectReferenceTurn(e, i, toks, bracketEnd, index, propEnd) ==
    IF bracketEnd = 0 THEN LexerFail("Unclosed bracket in object reference")
    ELSE IF ~index.ok THEN LexerFail("stoi")
    ELSE IF bracketEnd + 1 > Len(e) \/ e[bracketEnd + 1] # "."
    THEN LexerFail("Missing property in object reference")
    ELSE [ok |-> TRUE, err |-> "", i |-> propEnd, currentLexeme |-> <<>>,
          branch |-> "object",
          tokens |-> Append(toks,
                            [Token("TOKEN_OBJECT_REF") EXCEPT
                                !.object_type = "p",
                                !.object_index = index.value,
                                !.object_property =
                                    Str(SubSeq(e, bracketEnd + 2, propEnd - 1))])]

\* the character at i starts a D(...) call
StartsCall(e, i) == ~ExtendsLexeme(e, i) /\ e[i] = "D" /\ NextChar(e, i) = "("

\* one turn of the lexer loop at a character that ends the lexeme and starts
\* no D(...) call
LexerBreak(e, i, flushed) ==
    IF ~flushed.ok THEN LexerFail(flushed.err)
    ELSE IF isspace(e[i])
    THEN [ok |-> TRUE, err |-> "", i |-> i + 1, currentLexeme |-> <<>>,
          branch |-> "space", tokens |-> flushed.tokens]
    ELSE IF e[i] = "p" /\ NextChar(e, i) = "["
    THEN ObjectReferenceTurn(e, i, flushed.tokens, find(e, "]", i + 2),
                             stoi(SubSeq(e, i + 2, find(e, "]", i + 2) - 1)),
                             ScanProperty(e, find(e, "]", i + 2) + 2))
    ELSE [ok |-> TRUE, err |-> "", i |-> i + 1, currentLexeme |-> <<>>,
          branch |-> "operator",
          tokens |-> Append(flushed.tokens, OperatorToken(e[i], flushed.tokens))]

\* one turn of the for loop of tokenizeExpression at position i, where no
\* D(...) call starts: the tokens, the lexeme and the position of the next
\* turn, or the exception
LexerTurn(e, i, toks, currentLexeme) ==
    IF ExtendsLexeme(e, i)
    THEN [ok |-> TRUE, err |-> "", i |-> i + 1, currentLexeme |-> Append(currentLexeme, e[i]),
          branch |-> "lexeme", tokens |-> toks]
    ELSE LexerBreak(e, i, flushLexeme(toks, currentLexeme))

ConverterFail(msg) == [ok |-> FALSE, err |-> msg, output |-> <<>>, stack |-> <<>>]

ConverterOk(output, stack) == [ok |-> TRUE, err |-> "", output |-> output, stack |-> stack]

\* one turn of the for loop of infixToRPN at the token token
ConverterTurn(token, output, stack) ==
    IF token.type \in OperandTypes THEN ConverterOk(Append(output, token), stack)
    ELSE IF token.type \in DOMAIN s_functionArity THEN ConverterOk(output, Append(stack, token))
    ELSE IF token.type = "TOKEN_COMMA"
    THEN LET p == PopUntilOpenParen(output, stack)
         IN  IF p.stack = <<>>
             THEN ConverterFail("Misplaced comma or mismatched parentheses")
             ELSE ConverterOk(p.output, p.stack)
    ELSE IF token.type = "TOKEN_OPEN_PAREN" THEN ConverterOk(output, Append(stack, token))
    ELSE IF token.type = "TOKEN_CLOSE_PAREN"
    THEN LET p  == PopUntilOpenParen(output, stack)
             s1 == SubSeq(p.stack, 1, Len(p.stack) - 1)
         IN  IF p.stack = <<>> THEN ConverterFail("Mismatched parentheses")
             ELSE IF s1 # <<>> /\ s1[Len(s1)].type \in DOMAIN s_functionArity
             THEN ConverterOk(Append(p.output, s1[Len(s1)]), SubSeq(s1, 1, Len(s1) - 1))
             ELSE ConverterOk(p.output, s1)
    ELSE IF token.type \notin DOMAIN s_operatorInfo
    THEN ConverterOk(Append(output, token), stack)
    ELSE LET p == PopOperators(output, stack, token)
         IN  ConverterOk(p.output, Append(p.stack, token))

\* the activation of tokenizeExpression that is running, and the stack of
\* activations with one of the fields of the running one changed
Top == frame.lexers[Len(frame.lexers)]

WithTop(lexer) == [frame.lexers EXCEPT ![Len(frame.lexers)] = lexer]

\* an exception leaves ParseEquation; thrown under a D(...) call it is caught
\* by the lexer that made the call and thrown again as its own
Throws(msg) ==
    /\ pc' = "threw"
    /\ parsed_eq' = [ok |-> FALSE,
                     err |-> IF Len(frame.lexers) > 1 THEN "Derivative parsing failed" ELSE msg,
                     eq |-> MakeParsedEquation([n \in 1..7 |-> [tokens |-> <<>>]])]

\* one turn of "for (char c : equation_string)"
SplitTurn ==
    /\ pc = "split"
    /\ frame.n <= Len(equation_text)
    /\ LET c == equation_text[frame.n]
       IN  frame' =
             [frame EXCEPT
                !.n = @ + 1,
                !.depth = IF c = "(" THEN @ + 1 ELSE IF c = ")" THEN @ - 1 ELSE @,
                !.current = IF c = "," /\ frame.depth = 0 THEN <<>> ELSE Append(@, c),
                !.expressions = IF c = "," /\ frame.depth = 0
                                THEN Append(@, trim(frame.current)) ELSE @]
    /\ UNCHANGED <<pc, expression, tokens, rpn, equationVars, registryVars, kernelVars,
                   callVars, constraintVars>>

\* the end of the splitting loop: the last piece is pushed
SplitEnd ==
    /\ pc = "split"
    /\ frame.n > Len(equation_text)
    /\ frame' = [frame EXCEPT !.expressions = IF frame.current # <<>>
                                              THEN Append(@, trim(frame.current)) ELSE @]
    /\ pc' = "component"
    /\ UNCHANGED <<expression, tokens, rpn, equationVars, registryVars, kernelVars,
                   callVars, constraintVars>>

\* "if (expressions.size() > n && !expressions[n].empty())" of component comp
HasComponent ==
    /\ frame.comp <= 7
    /\ Len(frame.expressions) > frame.comp - 1
    /\ frame.expressions[frame.comp] # <<>>

\* a component that is absent or empty keeps its empty token list
SkipComponent ==
    /\ pc = "component"
    /\ frame.comp <= 7
    /\ ~HasComponent
    /\ frame' = [frame EXCEPT !.comp = @ + 1,
                              !.parts = Append(@, [ok |-> TRUE, err |-> "", tokens |-> <<>>])]
    /\ UNCHANGED <<pc, expression, tokens, rpn, equationVars, registryVars, kernelVars,
                   callVars, constraintVars>>

\* tokenizeExpression is entered with the text of component comp
BeginComponent ==
    /\ pc = "component"
    /\ HasComponent
    /\ frame' = [frame EXCEPT !.lexers = <<NewLexer(frame.expressions[frame.comp])>>]
    /\ pc' = "lex"
    /\ UNCHANGED <<expression, tokens, rpn, equationVars, registryVars, kernelVars, callVars,
                   constraintVars>>

\* one turn of "for (size_t i = 0; i < expression.length(); ++i)" where no
\* D(...) call starts
LexerStep ==
    /\ pc = "lex"
    /\ Top.i <= Len(Top.expression)
    /\ ~StartsCall(Top.expression, Top.i)
    /\ LET turn == LexerTurn(Top.expression, Top.i, Top.tokens, Top.currentLexeme)
       IN  IF turn.ok
           THEN /\ frame' = [frame EXCEPT !.lexers =
                                WithTop([Top EXCEPT !.i = turn.i, !.tokens = turn.tokens,
                                                    !.currentLexeme = turn.currentLexeme,
                                                    !.branch = turn.branch])]
                /\ UNCHANGED <<pc, parsed_eq>>
           ELSE /\ Throws(turn.err)
                /\ UNCHANGED frame
    /\ UNCHANGED <<expression, tokens, rpn, equation_text, serialized_eq, registryVars,
                   kernelVars, callVars, constraintVars>>

\* the turn of the lexer loop at a D(...) call, up to the first loop of
\* parseDerivativeCall: the lexeme is flushed, a unary minus before the call
\* is noted, pos stands after "D("
BeginCall ==
    /\ pc = "lex"
    /\ Top.i <= Len(Top.expression)
    /\ StartsCall(Top.expression, Top.i)
    /\ LET flushed == flushLexeme(Top.tokens, Top.currentLexeme)
       IN  IF ~flushed.ok
           THEN Throws(flushed.err) /\ UNCHANGED frame
           ELSE /\ frame' =
                     [frame EXCEPT !.lexers =
                         WithTop([Top EXCEPT
                                    !.tokens = flushed.tokens,
                                    !.currentLexeme = <<>>,
                                    !.call = [NoCall EXCEPT
                                                !.shouldNegate =
                                                    flushed.tokens # <<>>
                                                    /\ flushed.tokens[Len(flushed.tokens)].type
                                                           = "TOKEN_NEG",
                                                !.pos = Top.i + 2,
                                                !.paren_depth = 1]])]
                /\ pc' = "scan"
                /\ UNCHANGED parsed_eq
    /\ UNCHANGED <<expression, tokens, rpn, equation_text, serialized_eq, registryVars,
                   kernelVars, callVars, constraintVars>>

\* "while (pos < expression.length() && paren_depth > 0)" goes on, and the
\* character at pos is not the comma at depth 1 it breaks at
ScanGoesOn ==
    /\ Top.call.pos <= Len(Top.expression)
    /\ Top.call.paren_depth > 0
    /\ ~(Top.call.paren_depth = 1 /\ Top.expression[Top.call.pos] = ",")

\* one turn of the first loop of parseDerivativeCall
ScanTurn ==
    /\ pc = "scan"
    /\ ScanGoesOn
    /\ LET c == Top.expression[Top.call.pos]
           d == IF c = "(" THEN Top.call.paren_depth + 1
                ELSE IF c = ")" THEN Top.call.paren_depth - 1
                ELSE Top.call.paren_depth
       IN  frame' = [frame EXCEPT !.lexers =
                        WithTop([Top EXCEPT
                                   !.call.pos = @ + 1,
                                   !.call.paren_depth = d,
                                   !.call.expr_str = IF c = ")" /\ d = 0 THEN @
                                                     ELSE Append(@, c)])]
    /\ UNCHANGED <<pc, expression, tokens, rpn, equationVars, registryVars, kernelVars,
                   callVars, constraintVars>>

\* parseDerivativeCall from the end of its first loop to the end of "Parse
\* the with-respect-to variable"; pos comes to stand where the name ended
ReadVariable ==
    /\ pc = "scan"
    /\ ~ScanGoesOn
    /\ IF Top.call.pos > Len(Top.expression) \/ Top.call.paren_depth # 1
       THEN Throws("Derivative parsing failed") /\ UNCHANGED frame
       ELSE \E var_start \in {SkipSpace(Top.expression, Top.call.pos + 1)} :
            \E var_end \in {ScanUntil(Top.expression, var_start, {",", ")"})} :
            \E wrt_var \in {Str(trim(SubSeq(Top.expression, var_start, var_end - 1)))} :
                IF ~isValidDerivativeWRT(wrt_var)
                THEN Throws("Derivative parsing failed") /\ UNCHANGED frame
                ELSE /\ frame' = [frame EXCEPT !.lexers =
                                     WithTop([Top EXCEPT !.call.wrt_var = wrt_var,
                                                         !.call.pos = var_end])]
                     /\ pc' = "order"
                     /\ UNCHANGED parsed_eq
    /\ UNCHANGED <<expression, tokens, rpn, equation_text, serialized_eq, registryVars,
                   kernelVars, callVars, constraintVars>>

\* parseDerivativeCall from "Parse optional order" up to its
\* tokenizeExpression: the order and the closing parenthesis are read and
\* expr_str gets an activation of its own
EnterDerivative ==
    /\ pc = "order"
    /\ \E hasOrder \in {Top.call.pos <= Len(Top.expression)
                            /\ Top.expression[Top.call.pos] = ","} :
       \E order_start \in {SkipSpace(Top.expression, Top.call.pos + 1)} :
       \E order_end \in {ScanUntil(Top.expression, order_start, {")"})} :
       \E order \in {IF hasOrder
                     THEN DerivativeOrder(stoi(trim(SubSeq(Top.expression, order_start,
                                                           order_end - 1))))
                     ELSE [ok |-> TRUE, order |-> 1]} :
       \E end_pos \in {IF hasOrder THEN order_end ELSE Top.call.pos} :
           IF \/ ~order.ok
              \/ end_pos > Len(Top.expression)
              \/ Top.expression[end_pos] # ")"
           THEN Throws("Derivative parsing failed") /\ UNCHANGED frame
           ELSE /\ frame' =
                     [frame EXCEPT !.lexers =
                         Append(WithTop([Top EXCEPT !.call.order = order.order,
                                                    !.call.end_pos = end_pos]),
                                NewLexer(Top.call.expr_str))]
                /\ pc' = "lex"
                /\ UNCHANGED parsed_eq
    /\ UNCHANGED <<expression, tokens, rpn, equation_text, serialized_eq, registryVars,
                   kernelVars, callVars, constraintVars>>

\* the flushLexeme after the lexer loop; infixToRPN is entered
LexerEnd ==
    /\ pc = "lex"
    /\ Top.i > Len(Top.expression)
    /\ LET flushed == flushLexeme(Top.tokens, Top.currentLexeme)
       IN  IF flushed.ok
           THEN /\ frame' = [frame EXCEPT !.lexers =
                                WithTop([Top EXCEPT !.tokens = flushed.tokens,
                                                    !.currentLexeme = <<>>])]
                /\ pc' = "convert"
                /\ UNCHANGED parsed_eq
           ELSE /\ Throws(flushed.err)
                /\ UNCHANGED frame
    /\ UNCHANGED <<expression, tokens, rpn, equation_text, serialized_eq, registryVars,
                   kernelVars, callVars, constraintVars>>

\* one turn of "for (const auto& token : infixTokens)"
ConverterStep ==
    /\ pc = "convert"
    /\ Top.t <= Len(Top.tokens)
    /\ LET turn == ConverterTurn(Top.tokens[Top.t], Top.output, Top.stack)
       IN  IF turn.ok
           THEN /\ frame' = [frame EXCEPT !.lexers =
                                WithTop([Top EXCEPT !.t = @ + 1, !.output = turn.output,
                                                    !.stack = turn.stack])]
                /\ UNCHANGED <<pc, parsed_eq>>
           ELSE /\ Throws(turn.err)
                /\ UNCHANGED frame
    /\ UNCHANGED <<expression, tokens, rpn, equation_text, serialized_eq, registryVars,
                   kernelVars, callVars, constraintVars>>

\* the while loop after the tokens of a component: the stack is emptied and
\* infixToRPN returns the tokens of component comp
ConverterEnd ==
    /\ pc = "convert"
    /\ Len(frame.lexers) = 1
    /\ Top.t > Len(Top.tokens)
    /\ LET result == PopRemaining(Top.output, Top.stack)
       IN  IF result.ok
           THEN /\ frame' = [frame EXCEPT !.comp = @ + 1, !.parts = Append(@, result),
                                          !.lexers = <<>>]
                /\ pc' = "component"
                /\ UNCHANGED parsed_eq
           ELSE /\ Throws(result.err)
                /\ UNCHANGED frame
    /\ UNCHANGED <<expression, tokens, rpn, equation_text, serialized_eq, registryVars,
                   kernelVars, callVars, constraintVars>>

\* the lexer that made the call goes on with the tokens the call gave
AfterCall(lexer, derivative) ==
    [lexer EXCEPT
        !.i = ResumeAfterCall(lexer.i, derivative.end_pos),
        !.tokens = (IF lexer.call.shouldNegate THEN SubSeq(@, 1, Len(@) - 1) ELSE @)
                       \o DerivativeGroup(derivative.tokens, lexer.call.shouldNegate),
        !.branch = "derivative",
        !.call = NoCall]

\* the while loop after the tokens of expr_str: infixToRPN and
\* parseDerivativeCall return, the lexer that made the call goes on
LeaveDerivative ==
    /\ pc = "convert"
    /\ Len(frame.lexers) > 1
    /\ Top.t > Len(Top.tokens)
    /\ LET result == PopRemaining(Top.output, Top.stack)
           caller == frame.lexers[Len(frame.lexers) - 1]
       IN  IF result.ok
           THEN /\ frame' =
                     [frame EXCEPT !.lexers =
                         Append(SubSeq(@, 1, Len(@) - 2),
                                AfterCall(caller,
                                          DerivativeToken(caller.call.wrt_var,
                                                          caller.call.order,
                                                          caller.call.end_pos, result)))]
                /\ pc' = "lex"
                /\ UNCHANGED parsed_eq
           ELSE /\ Throws(result.err)
                /\ UNCHANGED frame
    /\ UNCHANGED <<expression, tokens, rpn, equation_text, serialized_eq, registryVars,
                   kernelVars, callVars, constraintVars>>

\* "return eq" after the seventh component and the constants
ReturnParsed ==
    /\ pc = "component"
    /\ frame.comp > 7
    /\ parsed_eq' = ParsedEquationOf([n \in 1..7 |-> frame.parts[n]])
    /\ pc' = "returned"
    /\ UNCHANGED <<expression, tokens, rpn, equation_text, serialized_eq, registryVars,
                   kernelVars, callVars, constraintVars, stepVars>>

InitSteps ==
    /\ InitRegistry
    /\ expression = <<>>
    /\ pc = "split"
    /\ tokens = Fail("")
    /\ rpn = Fail("")
    /\ equation_text \in StepInputs
    /\ parsed_eq = ParseEquation(<<>>)
    /\ serialized_eq = serializeEquationForGPU(ParseEquation(<<>>).eq)
    /\ NoCalls
    /\ NoConstraints
    /\ NoSteps

NextSteps ==
    \/ SplitTurn
    \/ SplitEnd
    \/ SkipComponent
    \/ BeginComponent
    \/ LexerStep
    \/ BeginCall
    \/ ScanTurn
    \/ ReadVariable
    \/ EnterDerivative
    \/ LexerEnd
    \/ ConverterStep
    \/ ConverterEnd
    \/ LeaveDerivative
    \/ ReturnParsed

\* the thread that called ParseEquation runs on while a statement is left
SpecSteps == InitSteps /\ [][NextSteps]_vars /\ WF_vars(NextSteps)

(***************************************************************************)
(* Properties of the stepwise compilation                                  *)
(***************************************************************************)
\* the result of the stepwise ParseEquation is the result of ParseEquation
StepwiseAgrees ==
    pc \in {"returned", "threw"} => parsed_eq = ParseEquation(equation_text)

RECURSIVE ParenDepth(_)
\* the number of '(' of s less the number of ')'
ParenDepth(s) ==
    IF s = <<>> THEN 0
    ELSE ParenDepth(SubSeq(s, 1, Len(s) - 1))
         + (IF s[Len(s)] = "(" THEN 1 ELSE IF s[Len(s)] = ")" THEN -1 ELSE 0)

\* the ')' at close is the one that closes the '(' at open
ClosesCall(e, open, close) ==
    /\ open < close
    /\ close <= Len(e)
    /\ e[open] = "("
    /\ e[close] = ")"
    /\ ParenDepth(SubSeq(e, open, close)) = 0
    /\ \A k \in open..(close - 1) : ParenDepth(SubSeq(e, open, k)) > 0

\* a turn of the lexer loop that starts no D(...) call and does not throw
LexerTurned ==
    pc = "lex" /\ pc' = "lex" /\ Len(frame'.lexers) = Len(frame.lexers)

\* parseDerivativeCall called tokenizeExpression(expr_str)
DerivativeEntered == pc = "order" /\ pc' = "lex"

\* parseDerivativeCall returned to the lexer that called it
DerivativeReturned == pc = "convert" /\ pc' = "lex"

\* the lexer frame.lexers[n] before the step is in frame.lexers[n] after it
\* at a later position
Advanced(n) == frame'.lexers[n].i > frame.lexers[n].i

\* every step of a lexer moves it on: a turn of the loop to a later position,
\* a D(...) call into a strictly shorter string, and the return from the call
\* to the position right after the parenthesis that closes the call
LexerAdvances ==
    /\ LexerTurned => Advanced(Len(frame.lexers))
    /\ DerivativeEntered =>
          /\ Len(frame'.lexers) = Len(frame.lexers) + 1
          /\ Len(frame'.lexers[Len(frame'.lexers)].expression) < Len(Top.expression)
    /\ DerivativeReturned =>
          /\ Len(frame'.lexers) = Len(frame.lexers) - 1
          /\ Advanced(Len(frame'.lexers))
          /\ ClosesCall(frame.lexers[Len(frame'.lexers)].expression,
                        frame.lexers[Len(frame'.lexers)].i + 1,
                        frame'.lexers[Len(frame'.lexers)].i - 1)

\* ParseEquation has returned or thrown
Finished == pc \in {"returned", "threw"}

CONSTRAINT_DISTANCE == 0

CONSTRAINT_BOUNDARY == 1

CONSTRAINT_ANGLE == 2

\* the longest constraint array the runs go to
MaxConstraints == 3

\* a Constraint; target is history: the index at which the object it
\* targeted when it was added is stored now (-2 once that object is removed,
\* -1 when it targets none)
MakeConstraint(type, targetObjectID, param1, param2, param3, param4) ==
    [type |-> type, targetObjectID |-> targetObjectID, param1 |-> param1,
     param2 |-> param2, param3 |-> param3, param4 |-> param4, target |-> -1]

\* the constraints callers pass (simulation_wrapper.cpp makes distance and
\* boundary constraints): distance constraints with every target index and
\* rest length 1, one with rest length 0, a box, a box with a side of length 0
ConstraintInputs ==
    {MakeConstraint(CONSTRAINT_DISTANCE, t, 1, 0, 0, 0) : t \in -1..MAX_OBJECTS}
        \cup {MakeConstraint(CONSTRAINT_DISTANCE, 0, 0, 0, 0, 0),
              MakeConstraint(CONSTRAINT_BOUNDARY, -1, 1, 0, 0, 1),
              MakeConstraint(CONSTRAINT_BOUNDARY, -1, 0, 1, 1, 1)}

\* the indices callers pass
IndexInputs == -1..MAX_OBJECTS

\* the constraints AddConstraint stores when the indices are those of objects
StorableInputs ==
    {MakeConstraint(CONSTRAINT_DISTANCE, t, 1, 0, 0, 0) : t \in 0..(MAX_OBJECTS - 1)}
        \cup {MakeConstraint(CONSTRAINT_BOUNDARY, -1, 1, 0, 0, 1)}

\* the calls of AddConstraint: the storable constraints for every index an
\* object can have, every constraint for index 0, the box for the two indices
\* no object can have
AddInputs ==
    {<<o, c>> : o \in 0..(MAX_OBJECTS - 1), c \in StorableInputs}
        \cup {<<0, c>> : c \in ConstraintInputs}
        \cup {<<o, MakeConstraint(CONSTRAINT_BOUNDARY, -1, 1, 0, 0, 1)>> : o \in {-1, MAX_OBJECTS}}

\* the calls of RemoveConstraint: every local index a constraint can have for
\* every index an object can have, the local indices -1 and MaxConstraints
\* for index 0, local index 0 for the two indices no object can have
RemoveInputs ==
    {<<o, j>> : o \in 0..(MAX_OBJECTS - 1), j \in 0..(MaxConstraints - 1)}
        \cup {<<0, -1>>, <<0, MaxConstraints>>}
        \cup {<<o, 0>> : o \in {-1, MAX_OBJECTS}}

\* "type = -1": the entry is marked for removal
Invalidated(c) == [c EXCEPT !.type = -1]

\* the number of entries among the first k of cons that are not marked
ValidBefore(cons, k) == Cardinality({m \in 1..k : cons[m].type # -1})

\* the loop of CompactConstraintArray over the mappings: the offset moves to
\* the new place of the entry it pointed at; a mapping whose offset points at
\* no kept entry is reset
CompactedMapping(cons, mapping) ==
    IF mapping.numConstraints > 0
    THEN IF /\ mapping.constraintOffset >= 0
            /\ mapping.constraintOffset < Len(cons)
            /\ cons[mapping.constraintOffset + 1].type # -1
         THEN [mapping EXCEPT !.constraintOffset = ValidBefore(cons, mapping.constraintOffset)]
         ELSE EmptyObjectConstraints
    ELSE mapping

Kept(c) == c.type # -1

\* CompactConstraintArray on the array cons and the mappings maps
CompactConstraintArray(cons, maps) ==
    [cons |-> SelectSeq(cons, Kept),
     maps |-> [i \in DOMAIN maps |-> CompactedMapping(cons, maps[i])]]

\* the test of the boundary branch of AddConstraint
ValidBounds(c) ==
    LET minX == IF c.param1 < c.param2 THEN c.param1 ELSE c.param2
        maxX == IF c.param1 > c.param2 THEN c.param1 ELSE c.param2
        minY == IF c.param3 < c.param4 THEN c.param3 ELSE c.param4
        maxY == IF c.param3 > c.param4 THEN c.param3 ELSE c.param4
    IN  ~(maxX - minX < 1 \/ maxY - minY < 1)

\* the validation at the head of AddConstraint: n is g_numObjects
Accepted(n, objectIndex, c) ==
    /\ objectIndex >= 0 /\ objectIndex < n
    /\ c.type = CONSTRAINT_DISTANCE =>
          /\ c.targetObjectID >= 0 /\ c.targetObjectID < n
          /\ c.targetObjectID # objectIndex
          /\ c.param1 > 0
    /\ c.type = CONSTRAINT_BOUNDARY => ValidBounds(c)

\* the else branch of AddConstraint: the block of the object moves to the end
\* of the array, the old block is marked and the array compacted
Relocated(cons, maps, objectIndex, c) ==
    LET mapping == maps[objectIndex]
        first == mapping.constraintOffset + 1
        end == mapping.constraintOffset + mapping.numConstraints
    IN  CompactConstraintArray(
            [k \in 1..Len(cons) |-> IF k >= first /\ k <= end THEN Invalidated(cons[k])
                                    ELSE cons[k]]
                \o SubSeq(cons, first, end) \o <<c>>,
            [maps EXCEPT ![objectIndex].constraintOffset = Len(cons),
                         ![objectIndex].numConstraints = mapping.numConstraints + 1])

\* AddConstraint after the validation: the array and the mappings it leaves
Stored(cons, maps, objectIndex, c) ==
    LET mapping == maps[objectIndex]
    IN  IF mapping.numConstraints = 0
        THEN [cons |-> Append(cons, c),
              maps |-> [maps EXCEPT ![objectIndex] =
                           [objectID |-> objectIndex, constraintOffset |-> Len(cons),
                            numConstraints |-> 1]]]
        ELSE IF mapping.constraintOffset + mapping.numConstraints = Len(cons)
        THEN [cons |-> Append(cons, c),
              maps |-> [maps EXCEPT ![objectIndex].numConstraints = @ + 1]]
        ELSE Relocated(cons, maps, objectIndex, c)

\* RemoveConstraint on the array cons and the mappings maps: the entries after
\* the removed one move down, the last slot is marked, the array is compacted
RemoveConstraintOn(cons, maps, n, objectIndex, constraintLocalIndex) ==
    IF objectIndex < 0 \/ objectIndex >= n THEN [cons |-> cons, maps |-> maps]
    ELSE IF constraintLocalIndex < 0 \/ constraintLocalIndex >= maps[objectIndex].numConstraints
    THEN [cons |-> cons, maps |-> maps]
    ELSE
      LET mapping == maps[objectIndex]
          removed == mapping.constraintOffset + constraintLocalIndex + 1
          end == mapping.constraintOffset + mapping.numConstraints
      IN  CompactConstraintArray(
              [k \in 1..Len(cons) |->
                  IF k >= removed /\ k < end THEN cons[k + 1]
                  ELSE IF k = end THEN Invalidated(cons[k])
                  ELSE cons[k]],
              [maps EXCEPT ![objectIndex] =
                  IF mapping.numConstraints = 1 THEN EmptyObjectConstraints
                  ELSE [mapping EXCEPT !.numConstraints = @ - 1]])

\* ClearConstraints on the array cons and the mappings maps
ClearConstraintsOn(cons, maps, n, objectIndex) ==
    IF objectIndex < 0 \/ objectIndex >= n THEN [cons |-> cons, maps |-> maps]
    ELSE IF maps[objectIndex].numConstraints = 0 THEN [cons |-> cons, maps |-> maps]
    ELSE
      LET mapping == maps[objectIndex]
      IN  CompactConstraintArray(
              [k \in 1..Len(cons) |->
                  IF /\ k >= mapping.constraintOffset + 1
                     /\ k <= mapping.constraintOffset + mapping.numConstraints
                  THEN Invalidated(cons[k]) ELSE cons[k]],
              [maps EXCEPT ![objectIndex] = EmptyObjectConstraints])

RECURSIVE RemoveTargetingFrom(_, _, _, _, _)
\* the inner loop of "Remove constraints that reference the removed object":
\* the constraints of object i from local index j down
RemoveTargetingFrom(S, n, removeIdx, i, j) ==
    IF j < 0 THEN S
    ELSE
      LET c == S.cons[S.maps[i].constraintOffset + j + 1]
      IN  IF c.type = CONSTRAINT_DISTANCE /\ c.targetObjectID = removeIdx
          THEN RemoveTargetingFrom(RemoveConstraintOn(S.cons, S.maps, n, i, j),
                                   n, removeIdx, i, j - 1)
          ELSE RemoveTargetingFrom(S, n, removeIdx, i, j - 1)

RECURSIVE RemoveTargeting(_, _, _, _)
\* the outer loop, from object i on
RemoveTargeting(S, n, removeIdx, i) ==
    IF i >= n THEN S
    ELSE IF i = removeIdx THEN RemoveTargeting(S, n, removeIdx, i + 1)
    ELSE RemoveTargeting(RemoveTargetingFrom(S, n, removeIdx, i,
                                             S.maps[i].numConstraints - 1),
                         n, removeIdx, i + 1)

\* entry number k of the array lies in the block of one of the first n objects
InBlock(maps, n, k) ==
    \E i \in 0..(n - 1) :
        /\ k >= maps[i].constraintOffset + 1
        /\ k <= maps[i].constraintOffset + maps[i].numConstraints

\* a faulty variant of Retargeted: the targets are left as they are
Retargeted_Stale(cons, maps, lastObjectIdx, removeIdx) == cons

\* "Update constraint references to the moved object": in the blocks of the
\* objects that stay, the target lastObjectIdx becomes removeIdx
Retargeted(cons, maps, lastObjectIdx, removeIdx) ==
    [k \in 1..Len(cons) |->
        IF /\ InBlock(maps, lastObjectIdx, k)
           /\ cons[k].type = CONSTRAINT_DISTANCE
           /\ cons[k].targetObjectID = lastObjectIdx
        THEN [cons[k] EXCEPT !.targetObjectID = removeIdx]
        ELSE cons[k]]

\* "Update constraint mappings": the mapping of the last object moves to
\* removeIdx and the last slot is cleared
MovedMappings(maps, lastObjectIdx, removeIdx) ==
    [maps EXCEPT
        ![removeIdx] = IF maps[lastObjectIdx].objectID = lastObjectIdx
                       THEN [maps[lastObjectIdx] EXCEPT !.objectID = removeIdx]
                       ELSE maps[lastObjectIdx],
        ![lastObjectIdx] = EmptyObjectConstraints]

\* RemoveObject from "If removing the last object" on, S being what the two
\* removals of constraints left
ObjectTaken(S, n, removeIdx) ==
    IF removeIdx = n - 1
    THEN [cons |-> S.cons, maps |-> [S.maps EXCEPT ![removeIdx] = EmptyObjectConstraints]]
    ELSE [cons |-> Retargeted(S.cons, MovedMappings(S.maps, n - 1, removeIdx), n - 1, removeIdx),
          maps |-> MovedMappings(S.maps, n - 1, removeIdx)]

\* the sequence s of per-object values after the object at removeIdx is
\* replaced by the last one
WithoutObject(s, removeIdx) ==
    IF removeIdx = Len(s) - 1 THEN SubSeq(s, 1, Len(s) - 1)
    ELSE SubSeq([s EXCEPT ![removeIdx + 1] = s[Len(s)]], 1, Len(s) - 1)

\* the history of the constraints cons after the object at removeIdx is
\* replaced by the object at lastObjectIdx: what targeted the one is left
\* without a target, what targeted the other follows it
Followed(cons, lastObjectIdx, removeIdx) ==
    [k \in 1..Len(cons) |->
        [cons[k] EXCEPT !.target = IF @ = removeIdx THEN -2
                                   ELSE IF @ = lastObjectIdx THEN removeIdx
                                   ELSE @]]

\* what the constraint operations leave alone
registryRest ==
    <<g_allTokens, g_allConstants, g_equationMappings, g_equationStringToID, issued,
      registered, capacityHit, last>>

\* Objects::AddObject()
AddObject ==
    /\ moved' = -1
    /\ IF g_numObjects >= MAX_OBJECTS
       THEN UNCHANGED <<objects, g_allConstraints, g_objectConstraintMappings>>
       ELSE /\ objects' = Append(objects, [equationID |-> 0])
            /\ g_objectConstraintMappings' =
                   [g_objectConstraintMappings EXCEPT ![g_numObjects] = EmptyObjectConstraints]
            /\ UNCHANGED g_allConstraints
    /\ UNCHANGED <<registryRest, kernelVars, compilerVars, equationVars, callVars, stepVars>>

\* Objects::AddConstraint(objectIndex, constraint)
AddConstraint(objectIndex, constraint) ==
    /\ Len(g_allConstraints) < MaxConstraints
    /\ IF ~Accepted(g_numObjects, objectIndex, constraint)
       THEN UNCHANGED <<g_allConstraints, g_objectConstraintMappings>>
       ELSE LET S == Stored(g_allConstraints, g_objectConstraintMappings, objectIndex,
                            [constraint EXCEPT
                                !.target = IF constraint.type = CONSTRAINT_DISTANCE
                                           THEN constraint.targetObjectID
                                           ELSE -1])
            IN  /\ g_allConstraints' = S.cons
                /\ g_objectConstraintMappings' = S.maps
    /\ moved' = -1
    /\ UNCHANGED <<objects, registryRest, kernelVars, compilerVars,
                   equationVars, callVars, stepVars>>

\* Objects::RemoveConstraint(objectIndex, constraintLocalIndex)
RemoveConstraint(objectIndex, constraintLocalIndex) ==
    /\ LET S == RemoveConstraintOn(g_allConstraints, g_objectConstraintMappings,
                                   g_numObjects, objectIndex, constraintLocalIndex)
       IN  /\ g_allConstraints' = S.cons
           /\ g_objectConstraintMappings' = S.maps
    /\ moved' = -1
    /\ UNCHANGED <<objects, registryRest, kernelVars, compilerVars,
                   equationVars, callVars, stepVars>>

\* Objects::ClearConstraints(objectIndex)
ClearConstraints(objectIndex) ==
    /\ LET S == ClearConstraintsOn(g_allConstraints, g_objectConstraintMappings,
                                   g_numObjects, objectIndex)
       IN  /\ g_allConstraints' = S.cons
           /\ g_objectConstraintMappings' = S.maps
    /\ moved' = -1
    /\ UNCHANGED <<objects, registryRest, kernelVars, compilerVars,
                   equationVars, callVars, stepVars>>

\* Objects::ClearAllConstraints()
ClearAllConstraints ==
    /\ g_objectConstraintMappings' = [i \in 0..(MAX_OBJECTS - 1) |-> EmptyObjectConstraints]
    /\ g_allConstraints' = <<>>
    /\ moved' = -1
    /\ UNCHANGED <<objects, registryRest, kernelVars, compilerVars,
                   equationVars, callVars, stepVars>>

\* Objects::RemoveObject(index): an index out of range removes the last object
RemoveObject(index) ==
    /\ IF g_numObjects = 0
       THEN /\ moved' = -1
            /\ UNCHANGED <<objects, g_allConstraints, g_objectConstraintMappings>>
       ELSE LET removeIdx == IF index >= 0 /\ index < g_numObjects THEN index
                             ELSE g_numObjects - 1
                cleared == ClearConstraintsOn(g_allConstraints, g_objectConstraintMappings,
                                              g_numObjects, removeIdx)
                S == ObjectTaken(RemoveTargeting(cleared, g_numObjects, removeIdx, 0),
                               g_numObjects, removeIdx)
            IN  /\ g_allConstraints' = Followed(S.cons, g_numObjects - 1, removeIdx)
                /\ g_objectConstraintMappings' = S.maps
                /\ objects' = WithoutObject(objects, removeIdx)
                /\ moved' = IF /\ removeIdx # g_numObjects - 1
                                /\ \E k \in 1..Len(S.cons) :
                                       S.cons[k].target = g_numObjects - 1
                             THEN removeIdx
                             ELSE -1
    /\ UNCHANGED <<registryRest, kernelVars, compilerVars, equationVars, callVars, stepVars>>

InitConstraints ==
    /\ InitRegistry
    /\ expression = <<>>
    /\ pc = "constraints"
    /\ tokens = Fail("")
    /\ rpn = Fail("")
    /\ NoEquationRun
    /\ NoCalls
    /\ NoConstraints
    /\ NoSteps

NextConstraints ==
    \/ AddObject
    \/ \E a \in AddInputs : AddConstraint(a[1], a[2])
    \/ \E r \in RemoveInputs : RemoveConstraint(r[1], r[2])
    \/ \E o \in IndexInputs : ClearConstraints(o)
    \/ ClearAllConstraints
    \/ \E o \in IndexInputs : RemoveObject(o)

SpecConstraints == InitConstraints /\ [][NextConstraints]_vars

(***************************************************************************)
(* Properties of the constraint store                                      *)
(***************************************************************************)
\* the places of the array the block of object i takes
Block(i) ==
    (g_objectConstraintMappings[i].constraintOffset + 1)..
        (g_objectConstraintMappings[i].constraintOffset
             + g_objectConstraintMappings[i].numConstraints)

\* the objects that have constraints
Constrained ==
    {i \in 0..(g_numObjects - 1) : g_objectConstraintMappings[i].numConstraints > 0}

\* the block of object i lies inside the array and holds no marked entry
BlockStored(i) ==
    /\ g_objectConstraintMappings[i].constraintOffset >= 0
    /\ g_objectConstraintMappings[i].constraintOffset
           + g_objectConstraintMappings[i].numConstraints <= Len(g_allConstraints)
    /\ \A k \in Block(i) : g_allConstraints[k].type # -1

\* the distance constraints of object i target an object that exists, is not
\* i, and is the object they targeted when they were added
TargetsKept(i) ==
    \A k \in Block(i) :
        g_allConstraints[k].type = CONSTRAINT_DISTANCE =>
            /\ g_allConstraints[k].targetObjectID >= 0
            /\ g_allConstraints[k].targetObjectID < g_numObjects
            /\ g_allConstraints[k].targetObjectID # i
            /\ g_allConstraints[k].targetObjectID = g_allConstraints[k].target

\* C30: after any sequence of AddObject, AddConstraint, RemoveConstraint,
\* ClearConstraints, ClearAllConstraints and RemoveObject, the block of every
\* object that has constraints lies inside the constraint array, holds no
\* entry of type -1 and overlaps the block of no other object, and every
\* stored distance constraint targets an existing object other than its owner,
\* the object it targeted when it was added.
C30_ConstraintStoreWellFormed ==
    \A i \in Constrained :
        /\ BlockStored(i)
        /\ \A j \in Constrained \ {i} : Block(i) \cap Block(j) = {}
        /\ BlockStored(i) => TargetsKept(i)

\* reached: RemoveObject has moved the last object into the place of the
\* removed one, a distance constraint that targeted it is stored with the new
\* index, and the block it lies in is not the first of the array
C30_Witness ==
    /\ pc = "constraints"
    /\ \E i \in Constrained : \E k \in Block(i) :
          /\ BlockStored(i)
          /\ g_objectConstraintMappings[i].constraintOffset > 0
          /\ g_allConstraints[k].type = CONSTRAINT_DISTANCE
          /\ g_allConstraints[k].target = moved
          /\ g_allConstraints[k].targetObjectID = moved
====
